---- MODULE Spec2Model ----
(***************************************************************************)
(* Model of the NodeGui binding generator (latest copy of main.ts).        *)
(*                                                                         *)
(* Text is modelled as a sequence of string pieces: the literal parts of   *)
(* a template and the interpolated values are separate pieces, and         *)
(* concatenating the pieces in order gives the text the program writes.    *)
(* A name that the program indexes or slices is a sequence of one-letter   *)
(* strings.  An input line is a record of the parts the regular            *)
(* expressions look for; RawLine renders it back to text.                  *)
(***************************************************************************)
EXTENDS Integers, Sequences, FiniteSets, TLC

\* ---------------------------------------------------------------- bounds
\* Largest number of lines of the input (inputString.split('\n')).
MaxLines == 3

\* ------------------------------------------------------------ text helpers
RECURSIVE Str(_)
\* The string spelled by a sequence of pieces.
Str(cs) == IF cs = <<>> THEN "" ELSE Head(cs) \o Str(Tail(cs))

RECURSIVE Flatten(_)
\* Array.prototype.join(''): the texts of an array, one after the other.
Flatten(texts) == IF texts = <<>> THEN <<>> ELSE Head(texts) \o Flatten(Tail(texts))

RECURSIVE JoinPieces(_, _)
\* Array.prototype.join(sep) on an array of strings, kept as pieces.
JoinPieces(items, sep) ==
  IF items = <<>> THEN <<>>
  ELSE IF Len(items) = 1 THEN <<items[1]>>
  ELSE <<items[1], sep>> \o JoinPieces(Tail(items), sep)

RECURSIVE JoinStr(_, _)
\* Array.prototype.join(sep) on an array of strings, as one string.
JoinStr(items, sep) ==
  IF items = <<>> THEN ""
  ELSE IF Len(items) = 1 THEN items[1]
  ELSE items[1] \o sep \o JoinStr(Tail(items), sep)

Range(s) == {s[i] : i \in 1..Len(s)}

UpperChars == <<"A","B","C","D","E","F","G","H","I","J","K","L","M",
                "N","O","P","Q","R","S","T","U","V","W","X","Y","Z">>
LowerChars == <<"a","b","c","d","e","f","g","h","i","j","k","l","m",
                "n","o","p","q","r","s","t","u","v","w","x","y","z">>

\* String.prototype.toLowerCase on a one-letter string.
\* Faulty variant of toLowerCase: the character is left as it is.
toLowerCaseUnchanged(c) == c

toLowerCase(c) ==
  IF \E i \in 1..Len(UpperChars) : UpperChars[i] = c
  THEN LowerChars[CHOOSE i \in 1..Len(UpperChars) : UpperChars[i] = c]
  ELSE c

\* The decimal digits of a call position (template `${i}`).
Digits == <<"0","1","2","3","4","5","6","7","8","9">>
NumStr(n) == IF n < 10 THEN Digits[n + 1] ELSE Digits[(n \div 10) + 1] \o Digits[(n % 10) + 1]

\* ------------------------------------------------------------ type registry
SUPPORTED_ARG_TYPES ==
  { "GLenum", "GLfloat", "GLint", "GLuint", "GLsizei", "GLclampf", "GLboolean",
    "const QModelIndex", "int", "const QPoint", "QPoint", "QItemSelectionModel::SelectionFlags",
    "QAbstractItemView::CursorAction", "QAbstractItemView::ScrollHint", "const QString",
    "QHeaderView::ResizeMode", "Qt::SortOrder", "bool", "Qt::Alignment", "Qt::Orientation",
    "uint", "Qt::TextElideMode", "QSizePolicy::Policy", "QWidget", "QComboBox::InsertPolicy",
    "QComboBox::SizeAdjustPolicy", "const QSize", "QIcon::Mode", "QIcon::State", "const QPixmap",
    "QPainter", "Qt::AspectRatioMode", "const QSizeF", "qreal", "QAction", "QMenu", "const QIcon",
    "Qt::Corner" }

isSupportedArgType(argName) == argName \in SUPPORTED_ARG_TYPES

DEREFERENCE_TYPES ==
  { "const QModelIndex", "const QPoint", "const QSize", "const QPixmap", "QPainter",
    "const QSizeF", "QPoint", "const QIcon" }

TS_WRAPPER_TYPES ==
  { "const QModelIndex", "QPainter", "const QPixmap", "QAction", "QMenu", "QPoint",
    "const QIcon", "const QPoint" }

SUPPORTED_RETURN_TYPES ==
  { "void", "GLfloat", "GLenum", "GLboolean", "GLint", "GLuint", "GLclampf",
    "GLsizei", "bool", "QModelIndex", "QModelIndexList", "Qt::Alignment", "int",
    "Qt::Orientation", "Qt::SortOrder", "QHeaderView::ResizeMode", "QRect",
    "QString", "QSize", "QComboBox::InsertPolicy", "QComboBox::SizeAdjustPolicy",
    "Qt::ContextMenuPolicy", "QIcon", "Qt::WindowFlags", "QWidget", "QSizeF",
    "qreal", "QAction", "QMenu" }

isSupportedReturnType(returnName) == returnName \in SUPPORTED_RETURN_TYPES

\* ------------------------------------------------------------- input lines
\* One line of the input.  marker is what follows the comment slashes
\* ("CLASS", "PROP", "TODO"), "TEXT" for any other non-blank text and
\* "BLANK" for a line with nothing but whitespace; pad says whether the line
\* carries leading and trailing whitespace.  A TODO line holds the return-type
\* token, the method name (letter by letter) and the text between the
\* parentheses as the parts between commas, each part as its words; a word is
\* a sequence of pieces whose first piece is the sigil when it has one.
Line(marker, pad, cls, ret, method, args) ==
  [marker |-> marker, pad |-> pad, cls |-> cls, ret |-> ret, method |-> method, args |-> args]

W(s) == <<s>>
NoArgs == << <<W("")>> >>

\* The text between the parentheses.
ArgsText(args) ==
  JoinStr([p \in 1..Len(args) |-> JoinStr([w \in 1..Len(args[p]) |-> Str(args[p][w])], " ")], ", ")

\* The text of a line, as typed.
RawLine(l) ==
  LET body == CASE l.marker = "BLANK" -> ""
                [] l.marker = "CLASS" -> "// CLASS: " \o l.cls
                [] l.marker = "PROP"  -> "// PROP: " \o l.cls
                [] l.marker = "TODO"  -> "// TODO: " \o l.ret \o " " \o Str(l.method)
                                          \o "(" \o ArgsText(l.args) \o ")"
                [] OTHER -> l.cls
  IN IF l.pad THEN "  " \o body \o " " ELSE body

\* String.prototype.trim on a line.
trim(l) == [l EXCEPT !.pad = FALSE]

\* `line.trim() === ''`: the trimmed text is empty exactly for a BLANK line.
IsBlank(l) == trim(l).marker = "BLANK"

\* line.match(classNameRegex): the regular expression is not anchored, so
\* surrounding whitespace does not matter.
classNameRegex(l) == l.marker = "CLASS" /\ l.cls # ""
\* Faulty variant of propNameRegex: the marker is not looked at.
propNameRegexAnyText(l) == l.cls # ""
propNameRegex(l) == l.marker = "PROP" /\ l.cls # ""
\* signature.match(sigRegex): a TODO comment, a return-type word, a method
\* name of at least one character and a parenthesised argument text.
sigRegex(l) == l.marker = "TODO" /\ l.ret # "" /\ Len(l.method) > 0

\* ------------------------------------------------------------- parseArgs
startsWithSigil(word) == Len(word) > 0 /\ word[1] \in {"&", "*"}

\* Faulty variant of parseArg: every named argument gets the same name.
parseArgSameName(argParts) ==
  LET n == Len(argParts)
      type == JoinStr([w \in 1..(n - 1) |-> Str(argParts[w])], " ")
      last == argParts[n]
      name == IF startsWithSigil(last) THEN Str(Tail(last)) ELSE Str(last)
  IN [type |-> type, name |-> IF name = "" THEN "" ELSE "a"]

\* One iteration of the loop of parseArgs over `part.trim().split(' ')`.
parseArg(argParts) ==
  LET n == Len(argParts)
      type == JoinStr([w \in 1..(n - 1) |-> Str(argParts[w])], " ")
      last == argParts[n]
      name == IF startsWithSigil(last) THEN Str(Tail(last)) ELSE Str(last)
  IN [type |-> type, name |-> name]

RECURSIVE parseArgs(_)
parseArgs(args) ==
  IF args = <<>> THEN <<>>
  ELSE LET a == parseArg(Head(args))
       IN (IF a.name # "" THEN <<a>> ELSE <<>>) \o parseArgs(Tail(args))

\* ------------------------------------------------------ parseMethodSignature
\* A value a function throws or returns: `type` is the discriminant of an
\* ExpandedMethodResult ("ok", "failed"), "Error" marks a JavaScript Error
\* object (which has no `type` property).
StringMsg(text) == [kind |-> "string", text |-> text]
FailedResult(text) == [type |-> "failed", message |-> StringMsg(text)]
ErrorObject(text) == [type |-> "Error", message |-> StringMsg(text)]

\* Faulty variant of FirstUnsupportedArg: the last such argument is taken.
FirstUnsupportedArgLast(args) ==
  IF \E i \in 1..Len(args) : ~isSupportedArgType(args[i].type)
  THEN CHOOSE i \in 1..Len(args) :
         /\ ~isSupportedArgType(args[i].type)
         /\ \A j \in (i + 1)..Len(args) : isSupportedArgType(args[j].type)
  ELSE 0

\* The first argument whose type is not in the catalogue, 0 if none.
FirstUnsupportedArg(args) ==
  IF \E i \in 1..Len(args) : ~isSupportedArgType(args[i].type)
  THEN CHOOSE i \in 1..Len(args) :
         /\ ~isSupportedArgType(args[i].type)
         /\ \A j \in 1..(i - 1) : isSupportedArgType(args[j].type)
  ELSE 0

parseMethodSignature(signature) ==
  LET raw == RawLine(signature)
      args == parseArgs(signature.args)
      bad == FirstUnsupportedArg(args)
  IN IF ~sigRegex(signature)
     THEN [thrown |-> TRUE,
           value |-> FailedResult(<<"Signature didn't match regex for '", raw, "'.">>),
           args |-> <<>>, methodName |-> <<>>, returnType |-> ""]
     ELSE IF ~isSupportedReturnType(signature.ret)
     THEN [thrown |-> TRUE,
           value |-> FailedResult(<<"Return type '", signature.ret,
                                    "' is unknown for signature '", raw, "'.">>),
           args |-> <<>>, methodName |-> <<>>, returnType |-> ""]
     ELSE IF bad # 0
     THEN [thrown |-> TRUE,
           value |-> FailedResult(<<"Argument type '", args[bad].type,
                                    "' is unknown for signature '", raw, "'.">>),
           args |-> <<>>, methodName |-> <<>>, returnType |-> ""]
     ELSE [thrown |-> FALSE, value |-> FailedResult(<<>>),
           args |-> args, methodName |-> signature.method, returnType |-> signature.ret]

\* ------------------------------------------------------ formatCppMethodBody
\* What an emitter does: return a text, or throw an Error object.
Returned(text) == [thrown |-> FALSE, value |-> ErrorObject(<<>>), text |-> text]
Threw(value) == [thrown |-> TRUE, value |-> value, text |-> <<>>]

\* Faulty variant of CppArgRule: an int argument is read as an unsigned value.
CppArgRuleIntUnsigned(type) ==
  CASE type \in {"GLboolean", "bool"} -> "boolean"
    [] type \in {"GLclampf", "GLfloat", "qreal"} -> "float"
    [] type \in {"GLenum", "GLint", "GLsizei"} -> "int32"
    [] type \in {"GLuint", "uint", "int"} -> "uint32"
    [] type \in {"const QModelIndex", "const QPoint", "const QSize", "const QSizeF"} -> "wrap"
    [] type \in {"const QPixmap", "QPainter", "QAction", "QMenu", "const QIcon"} -> "wrapIndented"
    [] type \in {"QItemSelectionModel::SelectionFlags", "QAbstractItemView::CursorAction",
                 "QAbstractItemView::ScrollHint", "QHeaderView::ResizeMode", "Qt::SortOrder",
                 "QComboBox::InsertPolicy", "QComboBox::SizeAdjustPolicy", "Qt::TextElideMode",
                 "Qt::Alignment", "Qt::Orientation", "Qt::AspectRatioMode",
                 "QSizePolicy::Policy", "QIcon::Mode", "QIcon::State", "Qt::Corner"} -> "enum"
    [] type = "const QString" -> "string"
    [] type = "QWidget" -> "widget"
    [] OTHER -> "none"

\* The case of the argument switch that a type falls in ("none": the default
\* case, which throws).
CppArgRule(type) ==
  CASE type \in {"GLboolean", "bool"} -> "boolean"
    [] type \in {"GLclampf", "GLfloat", "qreal"} -> "float"
    [] type \in {"GLenum", "GLint", "GLsizei", "int"} -> "int32"
    [] type \in {"GLuint", "uint"} -> "uint32"
    [] type \in {"const QModelIndex", "const QPoint", "const QSize", "const QSizeF"} -> "wrap"
    [] type \in {"const QPixmap", "QPainter", "QAction", "QMenu", "const QIcon"} -> "wrapIndented"
    [] type \in {"QItemSelectionModel::SelectionFlags", "QAbstractItemView::CursorAction",
                 "QAbstractItemView::ScrollHint", "QHeaderView::ResizeMode", "Qt::SortOrder",
                 "QComboBox::InsertPolicy", "QComboBox::SizeAdjustPolicy", "Qt::TextElideMode",
                 "Qt::Alignment", "Qt::Orientation", "Qt::AspectRatioMode",
                 "QSizePolicy::Policy", "QIcon::Mode", "QIcon::State", "Qt::Corner"} -> "enum"
    [] type = "const QString" -> "string"
    [] type = "QWidget" -> "widget"
    [] OTHER -> "none"

\* The native class named in the unwrap statement of a wrapper-typed argument.
WrappedClass(type) ==
  CASE type = "const QModelIndex" -> "QModelIndex"
    [] type = "const QPoint" -> "QPoint"
    [] type = "const QSize" -> "QSize"
    [] type = "const QSizeF" -> "QSizeF"
    [] type = "const QPixmap" -> "QPixmap"
    [] type = "const QIcon" -> "QIcon"
    [] OTHER -> type

\* The extraction statement of argument `arg` read from call position i (0-based).
CppArgStatement(arg, i) ==
  LET rule == CppArgRule(arg.type)
      idx == NumStr(i)
      cls == WrappedClass(arg.type)
      scalar(conv) == <<"  ", arg.type, " ", arg.name, " = ", "info[", idx, "]", conv>>
      unwrap(indent) ==
        <<"  ", cls, "Wrap* ", arg.name, "Wrap = Napi::ObjectWrap<", cls, "Wrap>::Unwrap(",
          "info[", idx, "]", ".As<Napi::Object>());\n", indent, cls, "* ", arg.name, " = ",
          arg.name, "Wrap->getInternalInstance();">>
  IN CASE rule = "boolean" -> scalar(".As<Napi::Boolean>().Value();")
       [] rule = "float" -> scalar(".As<Napi::Number>().FloatValue();")
       [] rule = "int32" -> scalar(".As<Napi::Number>().Int32Value();")
       [] rule = "uint32" -> scalar(".As<Napi::Number>().Uint32Value();")
       [] rule = "wrap" -> unwrap("  ")
       [] rule = "wrapIndented" -> unwrap("    ")
       [] rule = "enum" ->
            <<"  ", arg.type, " ", arg.name, " = static_cast<", arg.type, ">(",
              "info[", idx, "]", ".As<Napi::Number>().Int32Value());">>
       [] rule = "string" ->
            <<"  std::string ", arg.name, "NapiText = ", "info[", idx, "]",
              ".As<Napi::String>().Utf8Value();\n  QString ", arg.name,
              " = QString::fromUtf8(", arg.name, "NapiText.c_str());">>
       [] rule = "widget" ->
            <<"  Napi::Object ", arg.name, "WidgetObject = ", "info[", idx, "]",
              ".As<Napi::Object>();\n    NodeWidgetWrap* ", arg.name,
              "WidgetWrap =\n        Napi::ObjectWrap<NodeWidgetWrap>::Unwrap(", arg.name,
              "WidgetObject);\n    QWidget *", arg.name, " = ", arg.name,
              "WidgetWrap->getInternalInstance();">>
       [] OTHER -> <<>>

\* Faulty variant of CppArgStatements: the call position is off by one.
CppArgStatementsOffByOne(args) ==
  Flatten([k \in 1..Len(args) |-> CppArgStatement(args[k], k) \o <<"\n">>])

\* The loop over the arguments: argument k (1-based here) is args[k-1] of the
\* code and is read from info[k-1].
CppArgStatements(args) ==
  Flatten([k \in 1..Len(args) |-> CppArgStatement(args[k], k - 1) \o <<"\n">>])

\* The declaration of `result` that precedes the call.
CppResultDeclaration(returnType) ==
  CASE returnType = "void" -> <<"  ">>
    [] returnType \in {"QAction", "QMenu"} -> <<"  ", returnType, "* result = ">>
    [] OTHER -> <<"  ", returnType, " result = ">>

\* Faulty variant of CppCallArgument: no argument is dereferenced.
CppCallArgumentPlain(arg) == arg.name

\* One entry of the argument list of the native call.
CppCallArgument(arg) ==
  IF arg.type \in DEREFERENCE_TYPES THEN "*" \o arg.name ELSE arg.name

\* `this->instance->m(a, *b);`
CppInvocation(methodName, args) ==
  <<"this->instance->", Str(methodName), "(">>
    \o JoinPieces([k \in 1..Len(args) |-> CppCallArgument(args[k])], ", ")
    \o <<");\n">>

\* Faulty variant of CppReturnRule: a QIcon result is looked up in the wrapper
\* cache like a widget.
CppReturnRuleIconCached(returnType) ==
  CASE returnType = "void" -> "void"
    [] returnType \in {"int", "GLclampf", "GLfloat", "GLenum", "GLint", "GLuint",
                       "GLsizei", "qreal"} -> "number"
    [] returnType \in {"Qt::Alignment", "Qt::Orientation", "QHeaderView::ResizeMode",
                       "Qt::SortOrder", "QComboBox::InsertPolicy",
                       "QComboBox::SizeAdjustPolicy"} -> "enum"
    [] returnType \in {"GLboolean", "bool"} -> "boolean"
    [] returnType \in {"QModelIndex", "QRect", "QSize", "QSizeF"} -> "owned"
    [] returnType = "QModelIndexList" -> "list"
    [] returnType = "QString" -> "string"
    [] returnType \in {"QWidget", "QAction", "QMenu", "QIcon"} -> "cached"
    [] OTHER -> "none"

\* The case of the result-packing switch ("none": the default case, which throws).
CppReturnRule(returnType) ==
  CASE returnType = "void" -> "void"
    [] returnType \in {"int", "GLclampf", "GLfloat", "GLenum", "GLint", "GLuint",
                       "GLsizei", "qreal"} -> "number"
    [] returnType \in {"Qt::Alignment", "Qt::Orientation", "QHeaderView::ResizeMode",
                       "Qt::SortOrder", "QComboBox::InsertPolicy",
                       "QComboBox::SizeAdjustPolicy"} -> "enum"
    [] returnType \in {"GLboolean", "bool"} -> "boolean"
    [] returnType \in {"QModelIndex", "QRect", "QSize", "QSizeF", "QIcon"} -> "owned"
    [] returnType = "QModelIndexList" -> "list"
    [] returnType = "QString" -> "string"
    [] returnType \in {"QWidget", "QAction", "QMenu"} -> "cached"
    [] OTHER -> "none"

CppResultPacking(returnType) ==
  LET rule == CppReturnRule(returnType)
  IN CASE rule = "void" -> <<"  return env.Null();">>
       [] rule = "number" -> <<"  return Napi::Number::New(env, result);">>
       [] rule = "enum" -> <<"  return Napi::Number::New(env, static_cast<uint>(result));">>
       [] rule = "boolean" -> <<"  return Napi::Boolean::New(env, result);">>
       [] rule = "owned" ->
            <<"  auto resultInstance = ", returnType, "Wrap::constructor.New(\n",
              IF returnType = "QModelIndex" THEN "    " ELSE "      ",
              "{Napi::External<", returnType, ">::New(env, ", "new ", returnType, "(result)",
              ")});\n", IF returnType = "QModelIndex" THEN "  " ELSE "    ",
              "return resultInstance;">>
       [] rule = "list" ->
            <<"  Napi::Array resultArrayNapi = Napi::Array::New(env, result.size());\n",
              "  for (int i = 0; i < result.size(); i++) {\n",
              "    resultArrayNapi[i] = ", "QModelIndex", "Wrap::constructor.New(",
              "{Napi::External<", "QModelIndex", ">::New(env, ", "new ", "QModelIndex",
              "(result[i])", ")});\n", "  }\n", "  return resultArrayNapi;">>
       [] rule = "string" -> <<"  return Napi::String::New(env, result.toStdString());\n">>
       [] rule = "cached" ->
            <<"  if (result) {\n",
              "        return WrapperCache::instance.getWrapper(env, result);\n",
              "      } else {\n", "        return env.Null();\n", "      }">>
       [] OTHER -> <<>>

formatCppMethodBody(className, methodName, args, returnType) ==
  LET badArgs == {k \in 1..Len(args) : CppArgRule(args[k].type) = "none"}
      firstBad == CHOOSE k \in badArgs : \A j \in badArgs : k <= j
  IN IF badArgs # {}
     THEN Threw(ErrorObject(<<"formatCppMethodBody(): Unexpected arg type '",
                              args[firstBad].type, "' while processing C++ body.">>))
     ELSE IF CppReturnRule(returnType) = "none"
     THEN Threw(ErrorObject(<<"Unexpected return type ", returnType,
                              " while processing C++ body.">>))
     ELSE Returned(
            <<"\nNapi::Value ", className, "Wrap::", Str(methodName),
              "(const Napi::CallbackInfo& info) {\n  Napi::Env env = info.Env();\n">>
            \o CppArgStatements(args)
            \o CppResultDeclaration(returnType)
            \o CppInvocation(methodName, args)
            \o CppResultPacking(returnType)
            \o <<"\n}\n">>)

\* ------------------------------------------------------------ typed API
\* Faulty variant of formatTSMethodName: the name is never transformed.
formatTSMethodNameVerbatim(methodName) == methodName

formatTSMethodName(methodName) ==
  IF Len(methodName) >= 2 /\ methodName[1] = "g" /\ methodName[2] = "l"
  THEN LET body == SubSeq(methodName, 3, Len(methodName))
       IN IF body = <<>> THEN <<>> ELSE <<toLowerCase(body[1])>> \o Tail(body)
  ELSE methodName

\* The typed-surface name of a return type ("": the default case, which throws).
TsReturnTypeName(returnType) ==
  CASE returnType = "void" -> "void"
    [] returnType \in {"GLboolean", "bool"} -> "boolean"
    [] returnType \in {"int", "GLenum", "GLfloat", "GLint", "GLuint", "GLsizei", "qreal"} -> "number"
    [] returnType = "QModelIndex" -> returnType
    [] returnType = "QModelIndexList" -> "QModelIndex[]"
    [] returnType = "QRect" -> "QRect"
    [] returnType = "Qt::Alignment" -> "AlignmentFlag"
    [] returnType = "Qt::Orientation" -> "Orientation"
    [] returnType = "QHeaderView::ResizeMode" -> "QHeaderViewResizeMode"
    [] returnType = "Qt::SortOrder" -> "SortOrder"
    [] returnType = "QComboBox::InsertPolicy" -> "InsertPolicy"
    [] returnType = "QComboBox::SizeAdjustPolicy" -> "SizeAdjustPolicy"
    [] returnType = "Qt::TextElideMode" -> "TextElideMode"
    [] returnType = "QSize" -> "QSize"
    [] returnType = "QSizeF" -> "QSizeF"
    [] returnType = "Qt::ContextMenuPolicy" -> "ContextMenuPolicy"
    [] returnType = "Qt::WindowFlags" -> "WindowFlags"
    [] returnType = "QString" -> "string"
    [] returnType \in {"QIcon", "QWidget", "QAction", "QMenu"} -> returnType
    [] OTHER -> ""

mapCppToTsReturnType(returnType) ==
  IF TsReturnTypeName(returnType) = ""
  THEN Threw(ErrorObject(<<"Unexpected return type ", returnType,
                           " while processing TypeScript.">>))
  ELSE Returned(<<TsReturnTypeName(returnType)>>)

\* The typed-surface name of an argument type ("": the default case, which throws).
TsArgumentTypeName(argType) ==
  CASE argType \in {"GLboolean", "bool"} -> "boolean"
    [] argType \in {"GLclampf", "GLenum", "GLfloat", "GLint", "GLuint", "GLsizei",
                    "int", "uint", "qreal"} -> "number"
    [] argType = "const QModelIndex" -> "QModelIndex"
    [] argType = "const QPoint" -> "QPoint"
    [] argType = "const QSize" -> "QSize"
    [] argType = "const QSizeF" -> "QSizeF"
    [] argType = "QItemSelectionModel::SelectionFlags" -> "SelectionFlag"
    [] argType = "QAbstractItemView::CursorAction" -> "CursorAction"
    [] argType = "QAbstractItemView::ScrollHint" -> "ScrollHint"
    [] argType = "QHeaderView::ResizeMode" -> "QHeaderViewResizeMode"
    [] argType = "Qt::SortOrder" -> "SortOrder"
    [] argType = "QComboBox::InsertPolicy" -> "InsertPolicy"
    [] argType = "QComboBox::SizeAdjustPolicy" -> "SizeAdjustPolicy"
    [] argType = "Qt::TextElideMode" -> "TextElideMode"
    [] argType = "Qt::Alignment" -> "AlignmentFlag"
    [] argType = "Qt::Orientation" -> "Orientation"
    [] argType = "Qt::AspectRatioMode" -> "AspectRatioMode"
    [] argType = "const QString" -> "string"
    [] argType = "QSizePolicy::Policy" -> "QSizePolicyPolicy"
    [] argType = "QWidget" -> "QWidget"
    [] argType = "QIcon::Mode" -> "QIconMode"
    [] argType = "QIcon::State" -> "QIconState"
    [] argType = "const QPixmap" -> "QPixmap"
    [] argType = "QPainter" -> "QPainter"
    [] argType = "QAction" -> "QAction"
    [] argType = "QMenu" -> "QMenu"
    [] argType = "const QIcon" -> "QIcon"
    [] argType = "Qt::Corner" -> "Corner"
    [] OTHER -> ""

mapCppToTSArgumentType(argType, argName) ==
  IF TsArgumentTypeName(argType) = ""
  THEN Threw(ErrorObject(<<"mapCppToTSArgumentType(): Unexpected argument type '", argType,
                           "' specificed for argument '", argName,
                           "' while processing TypeScript.">>))
  ELSE Returned(<<TsArgumentTypeName(argType)>>)

\* `${arg.name}: ${mapCppToTSArgumentType(arg.type, arg.name)}`
TsParameter(arg) == arg.name \o ": " \o TsArgumentTypeName(arg.type)

\* The first lines of formatTSMethod and of formatTSProperty: the method head,
\* or the Error thrown while mapping an argument type or the return type.
TsMethodHead(methodName, args, returnType) ==
  LET badArgs == {k \in 1..Len(args) : mapCppToTSArgumentType(args[k].type, args[k].name).thrown}
      firstBad == CHOOSE k \in badArgs : \A j \in badArgs : k <= j
  IN IF badArgs # {}
     THEN mapCppToTSArgumentType(args[firstBad].type, args[firstBad].name)
     ELSE IF mapCppToTsReturnType(returnType).thrown
     THEN mapCppToTsReturnType(returnType)
     ELSE Returned(<<"    ", Str(formatTSMethodName(methodName)), "(">>
                   \o JoinPieces([k \in 1..Len(args) |-> TsParameter(args[k])], ", ")
                   \o <<"): ", TsReturnTypeName(returnType), " {\n">>)

\* One entry of the argument list of the forwarded native call.
TsCallArgument(arg) ==
  IF arg.type \in TS_WRAPPER_TYPES THEN arg.name \o ".native" ELSE arg.name

\* `this.native.m(a, b.native)`
TsMethodCall(methodName, args) ==
  <<"this.native.", Str(methodName), "(">>
    \o JoinPieces([k \in 1..Len(args) |-> TsCallArgument(args[k])], ", ")
    \o <<")">>

formatTSMethod(methodName, args, returnType) ==
  LET head == TsMethodHead(methodName, args, returnType)
      methodCall == TsMethodCall(methodName, args)
      body ==
        CASE returnType = "void" -> methodCall \o <<";\n">>
          [] returnType \in {"QModelIndex", "QRect", "QSize", "QSizeF"} ->
               <<"        return ", "new ", returnType, "(">> \o methodCall \o <<");\n">>
          [] returnType = "QModelIndexList" ->
               <<"        const methodResult = ">> \o methodCall
                 \o <<";\n", "        return methodResult.map((item: any) => ",
                      "new ", "QModelIndex", "(item));\n">>
          [] returnType \in {"QWidget", "QAction", "QMenu"} ->
               <<"        return ", "wrapperCache.getWrapper(">> \o methodCall
                 \o <<") as ", returnType, ";\n">>
          [] OTHER -> <<"        return ">> \o methodCall \o <<";\n">>
  IN IF head.thrown THEN head
     ELSE Returned(head.text \o body \o <<"    }\n">>)

\* `this.property('${methodName}')`
TsPropertyRead(methodName) == <<"this.property('", Str(methodName), "')">>

formatTSProperty(methodName, args, returnType) ==
  LET head == TsMethodHead(methodName, args, returnType)
      read == TsPropertyRead(methodName)
      body ==
        CASE returnType = "void" ->
               <<"this.setProperty('",
                 toLowerCase(methodName[4]) \o Str(SubSeq(methodName, 5, Len(methodName))),
                 "', ">>
                 \o JoinPieces([k \in 1..Len(args) |-> args[k].name], ", ")
                 \o <<");\n">>
          [] returnType = "bool" -> <<"        return ">> \o read \o <<".toBool();\n">>
          [] returnType = "QString" -> <<"        return ">> \o read \o <<".toString();\n">>
          [] returnType \in {"Qt::WindowFlags", "Qt::ContextMenuPolicy", "int", "uint"} ->
               <<"        return ">> \o read \o <<".toInt();\n">>
          [] returnType \in {"QRect", "QSize", "QIcon"} ->
               <<"        return ", returnType, ".fromQVariant(">> \o read \o <<");\n">>
          [] returnType = "QSizeF" ->
               <<"        return ", returnType, ".fromQVariant(">> \o read \o <<");\n  ">>
          [] OTHER -> <<"        return ">> \o read \o <<";\n">>
  IN IF head.thrown THEN head
     ELSE IF returnType = "void" /\ Len(methodName) < 4
     THEN Threw([type |-> "TypeError",
                 message |-> StringMsg(<<"Cannot read properties of undefined (reading 'toLowerCase')">>)])
     ELSE Returned(head.text \o body \o <<"    }\n">>)

\* ------------------------------------------------- expandMethod, expandProperty
\* A fragment of an ExpandedMethodOkResult: a text, or null.
Fragment(text) == [null |-> FALSE, text |-> text]
Null == [null |-> TRUE, text |-> <<>>]

OkResult(methodDeclaration, napiInit, methodBody, tsBody) ==
  [type |-> "ok", message |-> StringMsg(<<>>),
   methodDeclaration |-> methodDeclaration, napiInit |-> napiInit,
   methodBody |-> methodBody, tsBody |-> tsBody]

\* A result that is not an ExpandedMethodOkResult: its type and message only.
OtherResult(type, message) ==
  [type |-> type, message |-> message,
   methodDeclaration |-> Null, napiInit |-> Null, methodBody |-> Null, tsBody |-> Null]

\* `{ type: 'failed', message: failedResult }`: the message is the caught
\* object itself, not its text.
CaughtAsMessage(failedResult) ==
  OtherResult("failed", [kind |-> failedResult.type, text |-> failedResult.message.text])

\* `return failedResult`: the caught object is the result.
CaughtAsResult(failedResult) ==
  OtherResult(failedResult.type, failedResult.message)

MethodDeclaration(methodName) ==
  <<"  Napi::Value ", Str(methodName), "(const Napi::CallbackInfo& info);\n">>

NapiInit(className, methodName) ==
  <<"       InstanceMethod(\"", Str(methodName), "\", &", className, "Wrap::",
    Str(methodName), "),\n">>

expandMethod(className, signature) ==
  LET parsed == parseMethodSignature(signature)
      methodBody == formatCppMethodBody(className, parsed.methodName, parsed.args, parsed.returnType)
      tsBody == formatTSMethod(parsed.methodName, parsed.args, parsed.returnType)
  IN IF parsed.thrown THEN CaughtAsMessage(parsed.value)
     ELSE IF methodBody.thrown THEN CaughtAsMessage(methodBody.value)
     ELSE IF tsBody.thrown THEN CaughtAsMessage(tsBody.value)
     ELSE OkResult(Fragment(MethodDeclaration(parsed.methodName)),
                   Fragment(NapiInit(className, parsed.methodName)),
                   Fragment(methodBody.text), Fragment(tsBody.text))

\* Faulty variant of expandProperty: the declaration fragment is filled in.
expandPropertyWithDeclaration(signature) ==
  LET parsed == parseMethodSignature(signature)
      tsBody == formatTSProperty(parsed.methodName, parsed.args, parsed.returnType)
  IN IF parsed.thrown THEN CaughtAsResult(parsed.value)
     ELSE IF tsBody.thrown THEN CaughtAsResult(tsBody.value)
     ELSE OkResult(Fragment(MethodDeclaration(parsed.methodName)), Null, Null,
                   Fragment(tsBody.text))

expandProperty(signature) ==
  LET parsed == parseMethodSignature(signature)
      tsBody == formatTSProperty(parsed.methodName, parsed.args, parsed.returnType)
  IN IF parsed.thrown THEN CaughtAsResult(parsed.value)
     ELSE IF tsBody.thrown THEN CaughtAsResult(tsBody.value)
     ELSE OkResult(Null, Null, Null, Fragment(tsBody.text))

\* The text a template literal makes of `${result.message}`.
MessageText(message) ==
  CASE message.kind = "string" -> message.text
    [] message.kind = "failed" -> <<"[object Object]">>
    [] OTHER -> <<message.kind, ": ">> \o message.text

\* ------------------------------------------------------------------ inputs
BlankLine == Line("BLANK", FALSE, "", "", <<>>, <<>>)
SpaceLine == Line("BLANK", TRUE, "", "", <<>>, <<>>)
Header(marker, pad, cls) == Line(marker, pad, cls, "", <<>>, <<>>)
TextLine == Line("TEXT", FALSE, "int add(int a, int b)", "", <<>>, <<>>)
Signature(pad, ret, method, args) == Line("TODO", pad, "", ret, method, args)

IntA == <<W("int"), W("a")>>
IntB == <<W("int"), W("b")>>

\* // TODO: int add(int a, int b)
SigAdd == Signature(FALSE, "int", <<"a","d","d">>, <<IntA, IntB>>)
\* the same line, indented
SigAddPadded == Signature(TRUE, "int", <<"a","d","d">>, <<IntA, IntB>>)
\* // TODO: void setEnabled(bool enabled)
SigSetEnabled ==
  Signature(FALSE, "void", <<"s","e","t","E","n","a","b","l","e","d">>,
            << <<W("bool"), W("enabled")>> >>)
\* // TODO: void set(bool b)
SigSet == Signature(FALSE, "void", <<"s","e","t">>, << <<W("bool"), W("b")>> >>)
\* // TODO: Frobnicator zap()
SigZap == Signature(FALSE, "Frobnicator", <<"z","a","p">>, NoArgs)
\* // TODO: int count(int a, Frobnicator *f)
SigCount ==
  Signature(FALSE, "int", <<"c","o","u","n","t">>, <<IntA, <<W("Frobnicator"), <<"*", "f">>>> >>)
\* // TODO: void move(const QPoint &pos, QWidget *w, int a)
SigMove ==
  Signature(FALSE, "void", <<"m","o","v","e">>,
            << <<W("const"), W("QPoint"), <<"&", "pos">>>>, <<W("QWidget"), <<"*", "w">>>>, IntA >>)
\* // TODO: GLclampf glRange()
SigRange == Signature(FALSE, "GLclampf", <<"g","l","R","a","n","g","e">>, NoArgs)
\* // TODO: Qt::WindowFlags flags()
SigFlags == Signature(FALSE, "Qt::WindowFlags", <<"f","l","a","g","s">>, NoArgs)
\* // TODO: int (int a)
SigNoName == Signature(FALSE, "int", <<>>, <<IntA>>)

InputLines ==
  { BlankLine, SpaceLine, TextLine,
    Header("CLASS", FALSE, "Foo"), Header("CLASS", TRUE, "Bar"), Header("PROP", FALSE, "Foo"),
    SigAdd, SigAddPadded, SigSetEnabled, SigSet, SigZap, SigCount, SigMove, SigRange,
    SigFlags, SigNoName }

\* inputString.split('\n') always has at least one element.
Inputs == UNION { [1..n -> InputLines] : n \in 1..MaxLines }

\* -------------------------------------------------------------------- state
VARIABLES
  lines,           \* process: inputString.split('\n')
  pc,              \* where process is: "AwaitHeader", "ParsingBody", or ended
                   \* "Emitted" (returned after writing the sections), "Aborted"
                   \* (returned after an error line), "Crashed" (threw)
  lineNumber,      \* process: lineNumber (0-based, lines[lineNumber + 1] here)
  isProp,          \* process: isProp
  className,       \* process: className
  cppDeclaration,  \* process: cppDeclaration
  napiInitBlock,   \* process: napiInitBlock
  bodyBlock,       \* process: bodyBlock
  tsBlock,         \* process: tsBlock
  out              \* the calls of log so far, one text per call

vars == <<lines, pc, lineNumber, isProp, className, cppDeclaration, napiInitBlock,
          bodyBlock, tsBlock, out>>

log(text) == Append(out, text)

Init ==
  /\ lines \in Inputs
  /\ pc = "AwaitHeader"
  /\ lineNumber = 0
  /\ isProp = FALSE
  /\ className = ""
  /\ cppDeclaration = <<>>
  /\ napiInitBlock = <<>>
  /\ bodyBlock = <<>>
  /\ tsBlock = <<>>
  /\ out = <<>>

\* lines[lineNumber] of the code.
CurrentLine == lines[lineNumber + 1]

\* `lines[lineNumber].trim() === '' && lineNumber < lines.length`, evaluated
\* left to right: past the end lines[lineNumber] is undefined and .trim() throws.
SkipConditionThrows == lineNumber >= Len(lines)
SkipCondition == IsBlank(CurrentLine) /\ lineNumber < Len(lines)

\* One iteration of the loop that skips the leading blank lines.
SkipBlankLine ==
  /\ pc = "AwaitHeader"
  /\ ~SkipConditionThrows
  /\ SkipCondition
  /\ lineNumber' = lineNumber + 1
  /\ UNCHANGED <<lines, pc, isProp, className, cppDeclaration, napiInitBlock, bodyBlock,
                 tsBlock, out>>

\* The loop condition reads past the last line: process throws a TypeError,
\* which nothing catches.
ReadPastEnd ==
  /\ pc = "AwaitHeader"
  /\ SkipConditionThrows
  /\ pc' = "Crashed"
  /\ UNCHANGED <<lines, lineNumber, isProp, className, cppDeclaration, napiInitBlock,
                 bodyBlock, tsBlock, out>>

\* Faulty variant of ReadHeader: isProp is never set.
ReadHeaderNeverProp ==
  /\ pc = "AwaitHeader"
  /\ ~SkipConditionThrows
  /\ ~SkipCondition
  /\ IF lineNumber = Len(lines)
     THEN /\ out' = log(<<"ERROR: No non-blank lines were found.">>)
          /\ pc' = "Aborted"
          /\ UNCHANGED <<lineNumber, isProp, className>>
     ELSE IF ~classNameRegex(CurrentLine) /\ ~propNameRegex(CurrentLine)
     THEN /\ out' = log(<<"ERROR: Unable to find CLASS or PROP comment. i.e. // CLASS: FooBarWidget">>)
          /\ pc' = "Aborted"
          /\ UNCHANGED <<lineNumber, isProp, className>>
     ELSE /\ isProp' = FALSE
          /\ className' = CurrentLine.cls
          /\ lineNumber' = lineNumber + 1
          /\ pc' = "ParsingBody"
          /\ out' = out
  /\ UNCHANGED <<lines, cppDeclaration, napiInitBlock, bodyBlock, tsBlock>>

\* After the loop: the check for no input, then the header match.
ReadHeader ==
  /\ pc = "AwaitHeader"
  /\ ~SkipConditionThrows
  /\ ~SkipCondition
  /\ IF lineNumber = Len(lines)
     THEN /\ out' = log(<<"ERROR: No non-blank lines were found.">>)
          /\ pc' = "Aborted"
          /\ UNCHANGED <<lineNumber, isProp, className>>
     ELSE IF ~classNameRegex(CurrentLine) /\ ~propNameRegex(CurrentLine)
     THEN /\ out' = log(<<"ERROR: Unable to find CLASS or PROP comment. i.e. // CLASS: FooBarWidget">>)
          /\ pc' = "Aborted"
          /\ UNCHANGED <<lineNumber, isProp, className>>
     ELSE /\ isProp' = ~classNameRegex(CurrentLine)
          /\ className' = CurrentLine.cls
          /\ lineNumber' = lineNumber + 1
          /\ pc' = "ParsingBody"
          /\ out' = out
  /\ UNCHANGED <<lines, cppDeclaration, napiInitBlock, bodyBlock, tsBlock>>

\* The result of the body loop for the line it is at.
trimLine == trim(CurrentLine)
LineResult == IF isProp THEN expandProperty(trimLine) ELSE expandMethod(className, trimLine)

\* Faulty variant of Push: the fragment is put in front of the collection.
PushFront(block, fragment) == IF fragment.null THEN block ELSE <<fragment.text>> \o block

\* `if (fragment != null) block.push(fragment)`
Push(block, fragment) == IF fragment.null THEN block ELSE Append(block, fragment.text)

\* Faulty variant of BlankBodyLine: the blank line is taken for a signature,
\* which it is not, and the run stops there.
BlankBodyLineParsed ==
  /\ pc = "ParsingBody"
  /\ lineNumber < Len(lines)
  /\ IsBlank(CurrentLine)
  /\ out' = log(<<">>> ERROR: ", "Signature didn't match regex for '", "", "'.">>)
  /\ pc' = "Aborted"
  /\ UNCHANGED <<lines, lineNumber, isProp, className, cppDeclaration, napiInitBlock,
                 bodyBlock, tsBlock>>

\* A blank body line: `continue`.
BlankBodyLine ==
  /\ pc = "ParsingBody"
  /\ lineNumber < Len(lines)
  /\ IsBlank(CurrentLine)
  /\ lineNumber' = lineNumber + 1
  /\ UNCHANGED <<lines, pc, isProp, className, cppDeclaration, napiInitBlock, bodyBlock,
                 tsBlock, out>>

\* case 'ok'
OkBodyLine ==
  /\ pc = "ParsingBody"
  /\ lineNumber < Len(lines)
  /\ ~IsBlank(CurrentLine)
  /\ LET result == LineResult
     IN /\ result.type = "ok"
        /\ cppDeclaration' = Push(cppDeclaration, result.methodDeclaration)
        /\ napiInitBlock' = Push(napiInitBlock, result.napiInit)
        /\ bodyBlock' = Push(bodyBlock, result.methodBody)
        /\ tsBlock' = Push(tsBlock, result.tsBody)
  /\ lineNumber' = lineNumber + 1
  /\ UNCHANGED <<lines, pc, isProp, className, out>>

\* Faulty variant of FailedBodyLine: the error is logged and the loop goes on.
FailedBodyLineContinues ==
  /\ pc = "ParsingBody"
  /\ lineNumber < Len(lines)
  /\ ~IsBlank(CurrentLine)
  /\ LET result == LineResult
     IN /\ result.type = "failed"
        /\ out' = log(<<">>> ERROR: ">> \o MessageText(result.message))
  /\ lineNumber' = lineNumber + 1
  /\ UNCHANGED <<lines, pc, isProp, className, cppDeclaration, napiInitBlock,
                 bodyBlock, tsBlock>>

\* case 'failed'
FailedBodyLine ==
  /\ pc = "ParsingBody"
  /\ lineNumber < Len(lines)
  /\ ~IsBlank(CurrentLine)
  /\ LET result == LineResult
     IN /\ result.type = "failed"
        /\ out' = log(<<">>> ERROR: ">> \o MessageText(result.message))
  /\ pc' = "Aborted"
  /\ UNCHANGED <<lines, lineNumber, isProp, className, cppDeclaration, napiInitBlock,
                 bodyBlock, tsBlock>>

\* The result has a type the switch has no case for: nothing happens and the
\* loop goes on to the next line.
UnmatchedBodyLine ==
  /\ pc = "ParsingBody"
  /\ lineNumber < Len(lines)
  /\ ~IsBlank(CurrentLine)
  /\ LineResult.type \notin {"ok", "failed"}
  /\ lineNumber' = lineNumber + 1
  /\ UNCHANGED <<lines, pc, isProp, className, cppDeclaration, napiInitBlock, bodyBlock,
                 tsBlock, out>>

Rule == <<"//----------------------------------------------------">>

\* Faulty variant of Section: the section is written whatever its block holds.
SectionUnguarded(label, block) == <<Rule, <<label>>, Flatten(block), <<"">>>>

\* The four log calls of one guarded section.
Section(label, block) ==
  IF Len(block) # 0 THEN <<Rule, <<label>>, Flatten(block), <<"">>>> ELSE <<>>

\* The end of the input: the sections are written.
Emit ==
  /\ pc = "ParsingBody"
  /\ lineNumber >= Len(lines)
  /\ out' = out \o << <<"// CLASS: ", className>> >>
                \o Section("// C++ declaration", cppDeclaration)
                \o Section("// Napi declaration", napiInitBlock)
                \o Section("// C++ body", bodyBlock)
                \o <<Rule, <<"// TS body">>, Flatten(tsBlock)>>
  /\ pc' = "Emitted"
  /\ UNCHANGED <<lines, lineNumber, isProp, className, cppDeclaration, napiInitBlock,
                 bodyBlock, tsBlock>>

Next ==
  \/ SkipBlankLine
  \/ ReadPastEnd
  \/ ReadHeader
  \/ BlankBodyLine
  \/ OkBodyLine
  \/ FailedBodyLine
  \/ UnmatchedBodyLine
  \/ Emit

Spec == Init /\ [][Next]_vars

\* ---------------------------------------------- one signature, any types
\* The longest argument list built from ArgEntries.
MaxArgs == 2

\* A catalogue token as typed: the words between its spaces.
TypeWords(type) ==
  CASE type = "const QModelIndex" -> <<W("const"), W("QModelIndex")>>
    [] type = "const QPoint" -> <<W("const"), W("QPoint")>>
    [] type = "const QString" -> <<W("const"), W("QString")>>
    [] type = "const QSize" -> <<W("const"), W("QSize")>>
    [] type = "const QSizeF" -> <<W("const"), W("QSizeF")>>
    [] type = "const QPixmap" -> <<W("const"), W("QPixmap")>>
    [] type = "const QIcon" -> <<W("const"), W("QIcon")>>
    [] OTHER -> <<W(type)>>

\* `<type> <name>`, one entry of an argument list.
Entry(type, name) == TypeWords(type) \o <<W(name)>>

IntC == Entry("int", "c")
\* const QPoint &p
QPointRefP == <<W("const"), W("QPoint"), <<"&", "p">>>>
\* Frobnicator f
FrobF == Entry("Frobnicator", "f")
\* Frobnicator *
FrobStar == <<W("Frobnicator"), <<"*">>>>
\* int
UnnamedInt == <<W("int")>>

\* void
UnnamedVoid == <<W("void")>>

\* Gadget g
GadgetG == Entry("Gadget", "g")

ArgEntries == {IntA, IntB, IntC, QPointRefP, FrobF, GadgetG, FrobStar, UnnamedInt}

\* Argument texts: one argument of each catalogue type, `void`, and every
\* list of up to MaxArgs entries.
ArgLists ==
  {<<Entry(t, "a")>> : t \in SUPPORTED_ARG_TYPES}
    \cup {<<UnnamedVoid>>}
    \cup UNION { [1..n -> ArgEntries] : n \in 1..MaxArgs }

NameAdd == <<"a","d","d">>
NameSetEnabled == <<"s","e","t","E","n","a","b","l","e","d">>
NameSetX == <<"s","e","t","X">>
NameGlGetError == <<"g","l","G","e","t","E","r","r","o","r">>
MethodNames == {NameAdd, NameSetEnabled, NameSetX, NameGlGetError}

\* Signature lines: every catalogue return type (and an unknown one) with no
\* argument, with one and with one of an unknown type, and every argument
\* text after `int` and `void`.
Signatures ==
  {Signature(FALSE, r, m, a) :
     r \in SUPPORTED_RETURN_TYPES \cup {"Frobnicator"}, m \in MethodNames,
     a \in {NoArgs, <<Entry("bool", "enabled")>>, <<GadgetG>>}}
    \cup {Signature(FALSE, r, m, a) :
            r \in {"int", "void"}, m \in {NameAdd, NameGlGetError, NameSetEnabled},
            a \in ArgLists}

\* // TODO: Frobnicator (Frobnicator f)
SigNoNameUnknown == Signature(FALSE, "Frobnicator", <<>>, <<FrobF>>)

Headers == {Header("CLASS", FALSE, "Foo"), Header("PROP", FALSE, "Foo")}

\* A header and one line, a signature or not; the same with blank lines
\* around the header; an empty input.
SignatureInputs ==
  {<<h, s>> : h \in Headers, s \in Signatures \cup {SigNoNameUnknown, TextLine}}
    \cup {<<SpaceLine, h, BlankLine, s>> : h \in Headers, s \in {SigAdd, SigZap}}
    \cup {<<BlankLine>>}

InitSignature ==
  /\ lines \in SignatureInputs
  /\ pc = "AwaitHeader"
  /\ lineNumber = 0
  /\ isProp = FALSE
  /\ className = ""
  /\ cppDeclaration = <<>>
  /\ napiInitBlock = <<>>
  /\ bodyBlock = <<>>
  /\ tsBlock = <<>>
  /\ out = <<>>

SpecSignature == InitSignature /\ [][Next]_vars

\* ------------------------------------------------ what the input asks for
\* These are read off the input alone, not off the driver's variables.
Ended == pc \in {"Emitted", "Aborted", "Crashed"}

NonBlank == {i \in 1..Len(lines) : ~IsBlank(lines[i])}
\* The index of the first non-blank line, 0 if every line is blank.
HeaderIndex == IF NonBlank = {} THEN 0 ELSE CHOOSE i \in NonBlank : \A j \in NonBlank : i <= j
HeaderLine == lines[HeaderIndex]
HasHeader == HeaderIndex # 0 /\ HeaderLine.marker \in {"CLASS", "PROP"}
PropertyMode == HasHeader /\ HeaderLine.marker = "PROP"
OperationMode == HasHeader /\ HeaderLine.marker = "CLASS"
\* The non-blank lines after the header.
BodyLines == {i \in NonBlank : i > HeaderIndex}

\* What generation makes of body line i in the mode the header selects.
Generated(i) ==
  IF PropertyMode THEN expandProperty(trim(lines[i]))
  ELSE expandMethod(HeaderLine.cls, trim(lines[i]))
\* The signature parser's verdict on body line i.
Parsed(i) == parseMethodSignature(trim(lines[i]))
\* A valid signature line: generation succeeds.  An invalid one: the signature
\* parser rejects it (grammar mismatch or a type absent from the registry).
ValidLine(i) == Generated(i).type = "ok"
InvalidLine(i) == Parsed(i).thrown

\* The elements of a finite set of numbers in increasing order.
RECURSIVE Ascending(_)
Ascending(S) ==
  IF S = {} THEN <<>>
  ELSE LET m == CHOOSE x \in S : \A y \in S : x <= y
       IN <<m>> \o Ascending(S \ {m})

\* The body lines the loop has dealt with so far.
Processed == {i \in BodyLines : i <= lineNumber}

IsDiagnostic(text) == Len(text) >= 1 /\ text[1] = ">>> ERROR: "

\* ------------------------------------------------------------------ C1
\* The input is a valid header, N >= 0 valid signature lines and then an
\* invalid one at line f (blank lines anywhere).
FailFastAt(f) ==
  /\ HasHeader
  /\ f \in BodyLines
  /\ InvalidLine(f)
  /\ \A i \in BodyLines : i < f => ValidLine(i)

\* C1: fail-fast output.  When the body of a valid header is N >= 0 valid
\* signature lines followed by an invalid one, the run ends aborted at that
\* line and everything it has written is the one failure diagnostic of that
\* line: no section label, no fragment of the preceding lines.
Thm_C1 ==
  \A f \in 1..Len(lines) :
    (Ended /\ FailFastAt(f)) =>
      /\ pc = "Aborted"
      /\ lineNumber + 1 = f
      /\ Len(out) = 1
      /\ IsDiagnostic(out[1])
      /\ out[1] = <<">>> ERROR: ">> \o MessageText(Generated(f).message)

\* A run aborted by an invalid line that follows a valid line whose fragments
\* were collected.
Wit_C1 ==
  /\ pc = "Aborted"
  /\ FailFastAt(lineNumber + 1)
  /\ Len(tsBlock) >= 1
  /\ Len(out) = 1

\* ------------------------------------------------------------------ C2
\* C2: no skip-and-continue.  A run that reaches the end of the input and
\* writes the sections has collected one typed-API fragment for every
\* non-blank body line (a line whose generation does not succeed aborts the
\* run instead).
Cex_C2 == pc = "Emitted" => Len(tsBlock) = Cardinality(BodyLines)

\* ------------------------------------------------------------------ C3
\* C3: the diagnostic of a body line rejected by the signature parser contains
\* the trimmed input line, and the unresolved type token when the rejection is
\* an unsupported type.
UnresolvedTypes(i) ==
  LET l == trim(lines[i])
  IN IF ~sigRegex(l) THEN {}
     ELSE IF ~isSupportedReturnType(l.ret) THEN {l.ret}
     ELSE {a.type : a \in {x \in Range(parseArgs(l.args)) : ~isSupportedArgType(x.type)}}

Cex_C3 ==
  (pc = "Aborted" /\ HasHeader /\ InvalidLine(lineNumber + 1)) =>
    /\ Len(out) = 1
    /\ RawLine(trim(lines[lineNumber + 1])) \in Range(out[1])
    /\ UnresolvedTypes(lineNumber + 1) # {} =>
         \E t \in UnresolvedTypes(lineNumber + 1) : t \in Range(out[1])

\* ------------------------------------------------------------------ C4
\* C4: an input with no non-blank line ends normally with the one NoInput
\* diagnostic and nothing else.
Cex_C4 ==
  (Ended /\ NonBlank = {}) =>
    /\ pc = "Aborted"
    /\ out = << <<"ERROR: No non-blank lines were found.">> >>

\* ------------------------------------------------------------------ C5
\* C5: when the first non-blank line is neither a CLASS nor a PROP header the
\* run never reaches the body: it ends with exactly one error line, no line
\* after the first non-blank one is read and nothing is collected or written
\* besides that line.
Thm_C5 ==
  (HeaderIndex # 0 /\ ~HasHeader) =>
    /\ pc \in {"AwaitHeader", "Aborted"}
    /\ lineNumber < HeaderIndex
    /\ cppDeclaration = <<>> /\ napiInitBlock = <<>> /\ bodyBlock = <<>> /\ tsBlock = <<>>
    /\ Ended =>
         /\ Len(out) = 1
         /\ out[1] = <<"ERROR: Unable to find CLASS or PROP comment. i.e. // CLASS: FooBarWidget">>

\* A run ended by a first non-blank line that is no header, with signature
\* lines after it.
Wit_C5 ==
  /\ pc = "Aborted"
  /\ HeaderIndex # 0 /\ ~HasHeader
  /\ \E i \in BodyLines : sigRegex(lines[i])
  /\ Len(out) = 1

\* ------------------------------------------------------------------ C6
HeaderShaped(i) == lines[i].marker \in {"CLASS", "PROP"}

\* C6: header mode selection.  Once the leading blank lines are skipped, a
\* CLASS header puts the driver in operation mode and a PROP header in
\* property mode with the captured class name, and both stay so in every later
\* state; a later header-shaped line is handled as a signature line: the run
\* never gets past it and aborts there with a failure diagnostic.
Thm_C6 ==
  (HasHeader /\ pc # "AwaitHeader") =>
    /\ isProp = (HeaderLine.marker = "PROP")
    /\ className = HeaderLine.cls
    /\ \A i \in BodyLines : HeaderShaped(i) =>
         /\ lineNumber < i
         /\ (Ended /\ lineNumber + 1 = i) =>
              (pc = "Aborted" /\ Len(out) = 1 /\ IsDiagnostic(out[1]))

\* A property-mode run, its header found after a blank line, aborted at a
\* CLASS line in the body with the mode and the class name of the first header.
Wit_C6 ==
  /\ pc = "Aborted"
  /\ HeaderIndex > 1
  /\ PropertyMode /\ isProp /\ className = HeaderLine.cls
  /\ lineNumber + 1 \in BodyLines
  /\ lines[lineNumber + 1].marker = "CLASS"
  /\ lines[lineNumber + 1].cls # className

\* ------------------------------------------------------------------ C7
\* C7: in property mode the declaration, registration and native-body
\* collections are empty in every state, no 'C++ declaration', 'Napi
\* declaration' or 'C++ body' label is ever written, and a run that reaches
\* the end writes the class line and the typed-API section only.
Thm_C7 ==
  PropertyMode =>
    /\ cppDeclaration = <<>> /\ napiInitBlock = <<>> /\ bodyBlock = <<>>
    /\ \A e \in Range(out) :
         e \notin {<<"// C++ declaration">>, <<"// Napi declaration">>, <<"// C++ body">>}
    /\ pc = "Emitted" =>
         out = << <<"// CLASS: ", HeaderLine.cls>>, Rule, <<"// TS body">>, Flatten(tsBlock) >>

\* A property-mode run over valid signature lines that wrote its typed-API section.
Wit_C7 ==
  /\ pc = "Emitted"
  /\ PropertyMode
  /\ BodyLines # {}
  /\ \A i \in BodyLines : ValidLine(i)
  /\ Len(tsBlock) = Cardinality(BodyLines)

\* ------------------------------------------------------------------ C8
Written(label) == <<label>> \in Range(out)

\* C8 as stated: at the end of a run without failure each of the four labelled
\* sections is written only if its collection is non-empty.
Cex_C8 ==
  pc = "Emitted" =>
    /\ Written("// C++ declaration") => cppDeclaration # <<>>
    /\ Written("// Napi declaration") => napiInitBlock # <<>>
    /\ Written("// C++ body") => bodyBlock # <<>>
    /\ Written("// TS body") => tsBlock # <<>>

\* C8 amended: the declaration, registration and native-body sections are
\* written exactly when their collection is non-empty; the typed-API section is
\* always written, so a valid header followed by no signature line writes the
\* class line and an empty 'TS body' section.
Thm_C8 ==
  pc = "Emitted" =>
    /\ Written("// C++ declaration") <=> cppDeclaration # <<>>
    /\ Written("// Napi declaration") <=> napiInitBlock # <<>>
    /\ Written("// C++ body") <=> bodyBlock # <<>>
    /\ Written("// TS body")
    /\ BodyLines = {} =>
         out = << <<"// CLASS: ", HeaderLine.cls>>, Rule, <<"// TS body">>, <<>> >>

\* A run over a header with no signature line, ended with the sections written.
Wit_C8 ==
  /\ pc = "Emitted"
  /\ BodyLines = {}
  /\ tsBlock = <<>>
  /\ Written("// TS body")

\* ------------------------------------------------------------------ C9
\* Where a piece occurs in a text, in increasing order.
Positions(text, piece) == Ascending({i \in 1..Len(text) : text[i] = piece})

\* The processed body lines that generated fragments, in input order.
OkLines == Ascending({i \in Processed : ValidLine(i)})

\* The fragments at position k of the collections agree with the parsed
\* signature sig.
FragmentsAgree(k, sig) ==
  LET name == Str(sig.methodName)
      args == sig.args
      n == Len(args)
      decl == cppDeclaration[k]
      reg == napiInitBlock[k]
      body == bodyBlock[k]
      ts == tsBlock[k]
      reads == Positions(body, "info[")
      call == Positions(body, "this->instance->")
      fwd == Positions(ts, "this.native.")
  IN /\ decl[2] = name
     /\ reg[2] = name /\ reg[6] = name
     /\ body[4] = name
     /\ Len(call) = 1 /\ body[call[1] + 1] = name
     /\ Len(reads) = n
     /\ \A j \in 1..n :
          /\ body[reads[j] + 1] = NumStr(j - 1)
          /\ args[j].name \in {body[reads[j] - 2], body[reads[j] - 4]}
          /\ body[call[1] + 1 + 2 * j] \in {args[j].name, "*" \o args[j].name}
     /\ body[call[1] + 2 + (IF n = 0 THEN 1 ELSE 2 * n)] = ");\n"
     /\ \A j \in 1..n : ts[2 + 2 * j] = args[j].name \o ": " \o TsArgumentTypeName(args[j].type)
     /\ Len(fwd) = 1 /\ ts[fwd[1] + 1] = name
     /\ \A j \in 1..n : ts[fwd[1] + 1 + 2 * j] \in {args[j].name, args[j].name \o ".native"}
     /\ ts[fwd[1] + 2 + (IF n = 0 THEN 1 ELSE 2 * n)] = ")"

\* C9: in operation mode the declaration, registration and native-body
\* fragments of a signature name the method exactly as parsed; the native body
\* has one extraction per parsed argument, the k-th reading the k-th argument
\* from call position k (counted from 0), and passes the arguments to the
\* native call in the parsed order; the typed-API parameter list and forwarded
\* call use the same order.
Thm_C9 ==
  (OperationMode /\ pc # "AwaitHeader") =>
    LET ok == OkLines
    IN /\ Len(cppDeclaration) = Len(ok)
       /\ Len(napiInitBlock) = Len(ok)
       /\ Len(bodyBlock) = Len(ok)
       /\ Len(tsBlock) = Len(ok)
       /\ \A k \in 1..Len(ok) : FragmentsAgree(k, Parsed(ok[k]))

\* An operation-mode run that generated fragments for a signature of three
\* arguments.
Wit_C9 ==
  /\ OperationMode
  /\ pc = "Emitted"
  /\ \E k \in 1..Len(OkLines) :
       /\ Len(Parsed(OkLines[k]).args) = 3
       /\ k <= Len(bodyBlock)
       /\ Len(Positions(bodyBlock[k], "info[")) = 3

\* ------------------------------------------------------------------ C10
\* The j-th entry of the argument list of the native call in a body fragment.
CallEntry(body, j) == body[Positions(body, "this->instance->")[1] + 1 + 2 * j]

\* In the native call of body the j-th argument of args stands at position j,
\* dereferenced exactly when its type is in the dereference list.
DereferencedAsListed(body, args) ==
  LET call == Positions(body, "this->instance->")[1]
  IN \A j \in 1..Len(args) :
       /\ args[j].type \in DEREFERENCE_TYPES => body[call + 1 + 2 * j] = "*" \o args[j].name
       /\ args[j].type \notin DEREFERENCE_TYPES => body[call + 1 + 2 * j] = args[j].name

\* C10: in the native call of every generated operation-mode signature the
\* j-th parsed argument stands at position j, as `*<name>` when its type is in
\* the dereference list and as `<name>` when it is not.
Thm_C10 ==
  (OperationMode /\ pc # "AwaitHeader") =>
    LET ok == OkLines
    IN \A k \in 1..Len(ok) :
         k <= Len(bodyBlock) => DereferencedAsListed(bodyBlock[k], Parsed(ok[k]).args)

\* A generated native body whose call dereferences one argument and passes
\* another one unmodified.
Wit_C10 ==
  /\ OperationMode
  /\ pc # "AwaitHeader"
  /\ \E k \in 1..Len(OkLines) :
       /\ k <= Len(bodyBlock)
       /\ \E i, j \in 1..Len(Parsed(OkLines[k]).args) :
            /\ Parsed(OkLines[k]).args[i].type \in DEREFERENCE_TYPES
            /\ CallEntry(bodyBlock[k], i) = "*" \o Parsed(OkLines[k]).args[i].name
            /\ Parsed(OkLines[k]).args[j].type \notin DEREFERENCE_TYPES
            /\ CallEntry(bodyBlock[k], j) = Parsed(OkLines[k]).args[j].name

\* The body lines the loop has dealt with, the one it aborted at included.
Reached == Processed \cup (IF pc = "Aborted" THEN {lineNumber + 1} ELSE {})

\* ------------------------------------------------------------------ C11
\* The return types whose result is handed over as a fresh copy.
OwnedReturnTypes == {"QModelIndex", "QRect", "QSize", "QSizeF", "QIcon"}

\* The statement that looks a result up in the wrapper cache.
CacheLookup == "        return WrapperCache::instance.getWrapper(env, result);\n"

\* The native body copies the result to the heap once, builds one companion
\* wrapper of type T around that copy and returns it.
OwnedWrapOnce(body, T) ==
  LET copies == Positions(body, "new ")
      wrappers == Positions(body, "Wrap::constructor.New(\n")
  IN /\ Len(copies) = 1
     /\ body[copies[1] + 1] = T
     /\ body[copies[1] + 2] = "(result)"
     /\ Len(wrappers) = 1
     /\ body[wrappers[1] - 1] = T
     /\ body[wrappers[1] - 2] = "  auto resultInstance = "
     /\ wrappers[1] < copies[1]
     /\ body[Len(body) - 1] = "return resultInstance;"
     /\ Positions(body, "return resultInstance;") = <<Len(body) - 1>>
     /\ Positions(body, CacheLookup) = <<>>

\* C11: the native body generated for a signature whose return type is
\* QModelIndex, QRect, QSize, QSizeF or QIcon holds exactly one heap copy
\* `new T(result)`, exactly one construction of the companion wrapper, around
\* that copy, returns that wrapper, and never looks the result up in the
\* wrapper cache.
Thm_C11 ==
  (OperationMode /\ pc # "AwaitHeader") =>
    LET ok == OkLines
    IN \A k \in 1..Len(ok) :
         (k <= Len(bodyBlock) /\ Parsed(ok[k]).returnType \in OwnedReturnTypes)
           => OwnedWrapOnce(bodyBlock[k], Parsed(ok[k]).returnType)

\* A generated native body for a signature returning QIcon, with its heap copy.
Wit_C11 ==
  /\ OperationMode
  /\ pc = "Emitted"
  /\ Len(bodyBlock) = 1
  /\ Len(OkLines) = 1
  /\ Parsed(OkLines[1]).returnType = "QIcon"
  /\ Len(Parsed(OkLines[1]).args) = 1
  /\ Positions(bodyBlock[1], "new ") # <<>>

\* ------------------------------------------------------------------ C12
\* The line reads `int m(int a1, ..., int ak)`, k >= 0, with distinct names.
IsIntSignature(l) ==
  /\ l.marker = "TODO"
  /\ l.ret = "int"
  /\ Len(l.method) > 0
  /\ \/ l.args = NoArgs
     \/ /\ \A p \in 1..Len(l.args) :
             /\ Len(l.args[p]) = 2
             /\ l.args[p][1] = W("int")
             /\ Len(l.args[p][2]) = 1
             /\ l.args[p][2][1] \notin {"", "&", "*"}
        /\ \A p, q \in 1..Len(l.args) : p # q => l.args[p][2] # l.args[q][2]

\* a1, ..., ak as typed on the line.
IntNames(l) == IF l.args = NoArgs THEN <<>> ELSE [p \in 1..Len(l.args) |-> l.args[p][2][1]]

\* The method name without a leading `gl` and with the next character in
\* lower case; the name itself when it does not start with `gl`.
NameWithoutGl(m) ==
  IF Len(m) >= 2 /\ SubSeq(m, 1, 2) = <<"g", "l">>
  THEN IF Len(m) = 2 THEN "" ELSE toLowerCase(m[3]) \o Str(SubSeq(m, 4, Len(m)))
  ELSE Str(m)

\* The native body reads every name as a signed 32-bit value from its call
\* position, calls m with the names in order and wraps the result as a number.
IntBody(body, m, names) ==
  LET n == Len(names)
      reads == Positions(body, "info[")
      calls == Positions(body, "this->instance->")
  IN /\ Len(reads) = n
     /\ \A j \in 1..n :
          /\ body[reads[j] - 4] = "int"
          /\ body[reads[j] - 2] = names[j]
          /\ body[reads[j] + 1] = NumStr(j - 1)
          /\ body[reads[j] + 3] = ".As<Napi::Number>().Int32Value();"
     /\ Len(calls) = 1
     /\ body[calls[1] - 1] = " result = "
     /\ body[calls[1] + 1] = m
     /\ \A j \in 1..n : body[calls[1] + 1 + 2 * j] = names[j]
     /\ body[calls[1] + 2 + (IF n = 0 THEN 1 ELSE 2 * n)] = ");\n"
     /\ body[Len(body) - 1] = "  return Napi::Number::New(env, result);"

\* The typed-API fragment declares `declared(a1: number, ...): number` and
\* returns `this.native.m(a1, ...)`.
IntTs(ts, declared, m, names) ==
  LET n == Len(names)
      fwd == Positions(ts, "this.native.")
      close == 3 + (IF n = 0 THEN 1 ELSE 2 * n)
  IN /\ ts[2] = declared
     /\ \A j \in 1..n : ts[2 + 2 * j] = names[j] \o ": number"
     /\ ts[close] = "): " /\ ts[close + 1] = "number"
     /\ Len(fwd) = 1
     /\ ts[fwd[1] - 1] = "        return "
     /\ ts[fwd[1] + 1] = m
     /\ \A j \in 1..n : ts[fwd[1] + 1 + 2 * j] = names[j]
     /\ ts[fwd[1] + 2 + (IF n = 0 THEN 1 ELSE 2 * n)] = ")"
     /\ ts[fwd[1] + 3 + (IF n = 0 THEN 1 ELSE 2 * n)] = ";\n"

\* Where line i stands among the lines that generated fragments.
IndexIn(ok, i) == CHOOSE k \in 1..Len(ok) : ok[k] = i

\* The claim as written: the typed-API fragment declares the method under
\* the name m itself.
Cex_C12 ==
  (OperationMode /\ pc # "AwaitHeader") =>
    LET ok == OkLines
    IN \A i \in Reached :
         IsIntSignature(lines[i]) =>
           /\ ValidLine(i)
           /\ IntTs(tsBlock[IndexIn(ok, i)], Str(lines[i].method), Str(lines[i].method),
                    IntNames(lines[i]))

\* C12: an operation-mode line `int m(int a1, ..., int ak)`, k >= 0, with
\* distinct names generates fragments; the native body reads each ai as a
\* signed 32-bit value from call position i-1, calls m(a1, ..., ak) and
\* returns the result as a number; the typed-API fragment declares
\* `n(a1: number, ..., ak: number): number`, where n is m, or m without its
\* leading `gl` and with the next character lower-cased when m starts with
\* `gl`, and returns `this.native.m(a1, ..., ak)`.
Thm_C12 ==
  (OperationMode /\ pc # "AwaitHeader") =>
    LET ok == OkLines
    IN \A i \in Reached :
         IsIntSignature(lines[i]) =>
           /\ ValidLine(i)
           /\ IntBody(bodyBlock[IndexIn(ok, i)], Str(lines[i].method), IntNames(lines[i]))
           /\ IntTs(tsBlock[IndexIn(ok, i)], NameWithoutGl(lines[i].method),
                    Str(lines[i].method), IntNames(lines[i]))

\* Fragments generated for `int glGetError(int a, int b)`: declared as
\* getError, forwarded as glGetError.
Wit_C12 ==
  /\ OperationMode
  /\ pc = "Emitted"
  /\ \E i \in Reached :
       /\ IsIntSignature(lines[i])
       /\ IntNames(lines[i]) = <<"a", "b">>
       /\ lines[i].method = NameGlGetError
       /\ Len(tsBlock) = 1
       /\ tsBlock[1][2] = "getError"
       /\ Len(Positions(bodyBlock[1], "info[")) = 2

\* ------------------------------------------------------------------ C13
\* The line reads `void set<Name>(<type> <name>)`: the method name is `set`
\* and a capitalised property name, the one argument is of a catalogue type.
IsSetterLine(l) ==
  /\ l.marker = "TODO"
  /\ l.ret = "void"
  /\ Len(l.method) >= 4
  /\ SubSeq(l.method, 1, 3) = <<"s", "e", "t">>
  /\ l.method[4] \in Range(UpperChars)
  /\ Len(l.args) = 1
  /\ \E t \in SUPPORTED_ARG_TYPES, sigil \in {<<>>, <<"&">>, <<"*">>}, x \in {"a", "enabled"} :
       l.args[1] = TypeWords(t) \o <<sigil \o <<x>>>>

\* The name of the one argument of a setter line.
SetterArgument(l) == LET last == l.args[1][Len(l.args[1])] IN last[Len(last)]

\* The property name of a setter line with its first character lower-cased.
SetterKey(l) == toLowerCase(l.method[4]) \o Str(SubSeq(l.method, 5, Len(l.method)))

\* The typed-API fragment forwards to setProperty under the key, passing the
\* argument.
SetterForwards(ts, key, argument) ==
  LET set == Positions(ts, "this.setProperty('")
  IN /\ Len(set) = 1
     /\ ts[set[1] + 1] = key
     /\ ts[set[1] + 2] = "', "
     /\ ts[set[1] + 3] = argument
     /\ ts[set[1] + 4] = ");\n"

\* C13: in property mode every line `void set<Name>(<type> <name>)` with a
\* catalogue argument type generates a typed accessor that forwards to
\* setProperty under the property name with its first character lower-cased
\* (`enabled` for setEnabled), passing the argument.
Cex_C13 ==
  (PropertyMode /\ pc # "AwaitHeader") =>
    LET ok == OkLines
    IN \A i \in Reached :
         IsSetterLine(lines[i]) =>
           /\ ValidLine(i)
           /\ SetterForwards(tsBlock[IndexIn(ok, i)], SetterKey(lines[i]),
                             SetterArgument(lines[i]))
           /\ lines[i].method = NameSetEnabled =>
                tsBlock[IndexIn(ok, i)][Positions(tsBlock[IndexIn(ok, i)],
                                                  "this.setProperty('")[1] + 1] = "enabled"

\* ------------------------------------------------------------------ C14
\* The key under which a generated setter accessor calls setProperty.
KeyPiece(ts) == ts[Positions(ts, "this.setProperty('")[1] + 1]

\* The method name without its first n characters, the first remaining
\* character in lower case ("" when nothing remains).
Decapitalised(name, n) ==
  IF Len(name) <= n THEN ""
  ELSE LET c == name[n + 1]
           lower == IF \E j \in 1..26 : UpperChars[j] = c
                    THEN LowerChars[CHOOSE j \in 1..26 : UpperChars[j] = c]
                    ELSE c
       IN lower \o Str(SubSeq(name, n + 2, Len(name)))

\* The keys of the method names of the inputs, written out.
KnownKey(name) ==
  CASE name = NameSetEnabled -> "enabled"
    [] name = NameSetX -> "x"
    [] name = NameGlGetError -> "etError"
    [] OTHER -> Decapitalised(name, 3)

\* The property-mode lines that parse with return type void.
SetterShaped == {i \in Reached : ~Parsed(i).thrown /\ Parsed(i).returnType = "void"}

\* The claim as written: the key is the method name without its first 4
\* characters, the first remaining character lower-cased.
Cex_C14 ==
  (PropertyMode /\ pc # "AwaitHeader") =>
    LET ok == OkLines
    IN \A i \in SetterShaped :
         ValidLine(i) => KeyPiece(tsBlock[IndexIn(ok, i)]) = Decapitalised(lines[i].method, 4)

\* C14: in property mode the accessor generated for a signature of return
\* type void calls setProperty under the method name without its first 3
\* characters, the first remaining character (the 4th of the name)
\* lower-cased; a method name of fewer than 4 characters generates no
\* accessor.
Thm_C14 ==
  (PropertyMode /\ pc # "AwaitHeader") =>
    LET ok == OkLines
    IN \A i \in SetterShaped :
         /\ ValidLine(i) =>
              /\ Len(lines[i].method) >= 4
              /\ KeyPiece(tsBlock[IndexIn(ok, i)]) = Decapitalised(lines[i].method, 3)
              /\ KeyPiece(tsBlock[IndexIn(ok, i)]) = KnownKey(lines[i].method)
         /\ Len(lines[i].method) < 4 => ~ValidLine(i)

\* The accessor generated for `void setEnabled(bool enabled)`, keyed
\* `enabled`.
Wit_C14 ==
  /\ PropertyMode
  /\ pc = "Emitted"
  /\ Len(tsBlock) = 1
  /\ \E i \in SetterShaped :
       /\ lines[i].method = NameSetEnabled
       /\ ValidLine(i)
       /\ KeyPiece(tsBlock[1]) = "enabled"

\* ------------------------------------------------------------------ C16
\* The line reads `<ret> m(<type> a)` with a catalogue argument type and the
\* return type int or void.
OneCatalogueArgument(l) ==
  /\ l.marker = "TODO"
  /\ l.ret \in {"int", "void"}
  /\ Len(l.method) > 0
  /\ \E t \in SUPPORTED_ARG_TYPES : l.args = <<Entry(t, "a")>>

\* The catalogue type of the argument of such a line.
CatalogueArgument(l) == CHOOSE t \in SUPPORTED_ARG_TYPES : l.args = <<Entry(t, "a")>>

\* C16: every operation-mode line with one argument of a catalogue type
\* generates fragments: the native body holds one extraction statement and
\* passes the argument to the call, and the typed-API fragment declares the
\* parameter with a typed-surface type; the native argument switch and the
\* typed-surface argument mapping both have a rule for the type.
Cex_C16 ==
  (OperationMode /\ pc # "AwaitHeader") =>
    LET ok == OkLines
    IN \A i \in Reached :
         OneCatalogueArgument(lines[i]) =>
           /\ CppArgRule(CatalogueArgument(lines[i])) # "none"
           /\ TsArgumentTypeName(CatalogueArgument(lines[i])) # ""
           /\ ValidLine(i)
           /\ pc # "Aborted"
           /\ Len(Positions(bodyBlock[IndexIn(ok, i)], "info[")) = 1
           /\ CallEntry(bodyBlock[IndexIn(ok, i)], 1) \in {"a", "*a"}
           /\ tsBlock[IndexIn(ok, i)][4] =
                "a: " \o TsArgumentTypeName(CatalogueArgument(lines[i]))

\* ------------------------------------------------------------------ C17
\* The line reads `<ret> m()` with a catalogue return type.
CatalogueReturn(l) ==
  /\ l.marker = "TODO"
  /\ l.ret \in SUPPORTED_RETURN_TYPES
  /\ Len(l.method) > 0
  /\ l.args = NoArgs

\* C17: every operation-mode line `<ret> m()` with a catalogue return type
\* generates fragments: the result-packing switch and the typed-surface
\* return-type mapping both have a rule for the type, the run does not abort,
\* and the typed-API fragment declares the mapped return type.
Cex_C17 ==
  (OperationMode /\ pc # "AwaitHeader") =>
    LET ok == OkLines
    IN \A i \in Reached :
         CatalogueReturn(lines[i]) =>
           /\ CppReturnRule(lines[i].ret) # "none"
           /\ TsReturnTypeName(lines[i].ret) # ""
           /\ ValidLine(i)
           /\ pc # "Aborted"
           /\ tsBlock[IndexIn(ok, i)][4] = "): "
           /\ tsBlock[IndexIn(ok, i)][5] = TsReturnTypeName(lines[i].ret)

\* ------------------------------------------------------------------ C18
\* The name an entry of the argument text carries: its last word without a
\* leading sigil ("" when nothing is left).
WrittenName(entry) ==
  LET word == entry[Len(entry)]
  IN IF word[1] \in {"&", "*"}
     THEN (IF Len(word) > 1 THEN word[2] ELSE "")
     ELSE word[1]

\* The entries of the argument text of a line that carry a name, in order.
NamedEntries(l) == Ascending({p \in 1..Len(l.args) : WrittenName(l.args[p]) # ""})

\* No two elements of a sequence are equal.
PairwiseDistinct(s) == \A p, q \in 1..Len(s) : p # q => s[p] # s[q]

\* The names of the parsed arguments.
ParsedNames(sig) == [k \in 1..Len(sig.args) |-> sig.args[k].name]

\* The claim as written: the argument names of every successful parse are
\* pairwise distinct.
Cex_C18 ==
  pc # "AwaitHeader" =>
    \A i \in Reached : ~Parsed(i).thrown => PairwiseDistinct(ParsedNames(Parsed(i)))

\* C18: a successful parse keeps the argument names as written, in order,
\* one per entry that carries a name; they are pairwise distinct exactly
\* when the names written on the line are, and a line that repeats a name
\* parses all the same.
Thm_C18 ==
  pc # "AwaitHeader" =>
    \A i \in Reached :
      ~Parsed(i).thrown =>
        LET named == NamedEntries(lines[i])
            names == ParsedNames(Parsed(i))
        IN /\ Len(names) = Len(named)
           /\ \A k \in 1..Len(named) : names[k] = WrittenName(lines[i].args[named[k]])
           /\ PairwiseDistinct(names) <=>
                \A p, q \in 1..Len(named) :
                  p # q => WrittenName(lines[i].args[named[p]])
                             # WrittenName(lines[i].args[named[q]])

\* Fragments generated for `int add(int a, int a)`: the parse succeeded with
\* the name a twice.
Wit_C18 ==
  /\ OperationMode
  /\ pc = "Emitted"
  /\ Len(bodyBlock) = 1
  /\ \E i \in Reached :
       /\ lines[i].args = <<IntA, IntA>>
       /\ ~Parsed(i).thrown
       /\ ParsedNames(Parsed(i)) = <<"a", "a">>

\* ------------------------------------------------------------------ C19
\* The type token of an entry as typed: the words before the name or before
\* a bare sigil; the one word of an entry of a single word.
WrittenType(entry) ==
  LET n == Len(entry)
  IN JoinStr([w \in 1..(IF n = 1 THEN 1 ELSE n - 1) |-> entry[w][1]], " ")

\* The entries of the argument text that are not empty.
WrittenEntries(l) == {p \in 1..Len(l.args) : l.args[p] # <<W("")>>}

\* C19: a line of signature shape parses only if its return-type token and
\* the type token of every entry of its argument list, named or not, are in
\* the catalogues; a line with an entry of an unknown type fails, and the
\* failure names that type.
Cex_C19 ==
  pc # "AwaitHeader" =>
    \A i \in Reached :
      sigRegex(lines[i]) =>
        LET l == lines[i]
            unknown == {p \in WrittenEntries(l) :
                          WrittenType(l.args[p]) \notin SUPPORTED_ARG_TYPES}
        IN /\ ~Parsed(i).thrown =>
                (l.ret \in SUPPORTED_RETURN_TYPES /\ unknown = {})
           /\ (l.ret \in SUPPORTED_RETURN_TYPES /\ unknown # {}) =>
                /\ Parsed(i).thrown
                /\ Parsed(i).value.message.text[1] = "Argument type '"
                /\ \E p \in unknown :
                     Parsed(i).value.message.text[2] = WrittenType(l.args[p])

\* ------------------------------------------------------------------ C20
\* The typed-API fragment reads the property named as the method and converts
\* what it gets: by toBool, toString or toInt applied to the read, or by the
\* fromQVariant of the declared return type applied around it.
GetterConverts(ts, name) ==
  LET reads == Positions(ts, "this.property('")
      r == reads[1]
      declared == ts[5]
  IN /\ Len(reads) = 1
     /\ ts[r + 1] = name
     /\ ts[r + 2] = "')"
     /\ \/ declared = "boolean" /\ ts[r + 3] = ".toBool();\n"
        \/ declared = "string" /\ ts[r + 3] = ".toString();\n"
        \/ declared \notin {"boolean", "string"} /\ ts[r + 3] = ".toInt();\n"
        \/ ts[r - 2] = declared /\ ts[r - 1] = ".fromQVariant("

\* C20: in property mode every line `<ret> m()` with a catalogue return type
\* other than void generates an accessor that reads the property and converts
\* the value to the type it declares; none returns the value unconverted.
Cex_C20 ==
  (PropertyMode /\ pc # "AwaitHeader") =>
    LET ok == OkLines
    IN \A i \in Reached :
         (CatalogueReturn(lines[i]) /\ lines[i].ret # "void") =>
           /\ ValidLine(i)
           /\ GetterConverts(tsBlock[IndexIn(ok, i)], Str(lines[i].method))

\* ------------------------------------------------------------------ C21
\* The return types whose result is an existing object handed on by pointer.
PassThroughReturnTypes == {"QWidget", "QAction", "QMenu"}

\* The native body keeps the result of the call as a pointer to T, returns
\* the cached wrapper of that pointer when it is not null and null otherwise.
PointerThroughCache(body, T) ==
  LET calls == Positions(body, "this->instance->")
      tests == Positions(body, "  if (result) {\n")
  IN /\ Len(calls) = 1
     /\ body[calls[1] - 2] = T
     /\ body[calls[1] - 1] = "* result = "
     /\ Len(tests) = 1
     /\ body[tests[1] + 1] = CacheLookup
     /\ body[tests[1] + 2] = "      } else {\n"
     /\ body[tests[1] + 3] = "        return env.Null();\n"

\* C21: the native body generated for a signature whose return type is
\* QWidget, QAction or QMenu holds the result of the native call as a pointer
\* to that type, returns the cached wrapper of the pointer when it is not
\* null and a null result when it is.
Cex_C21 ==
  (OperationMode /\ pc # "AwaitHeader") =>
    LET ok == OkLines
    IN \A i \in Reached :
         (CatalogueReturn(lines[i]) /\ lines[i].ret \in PassThroughReturnTypes) =>
           /\ ValidLine(i)
           /\ PointerThroughCache(bodyBlock[IndexIn(ok, i)], lines[i].ret)

\* ------------------------------------------------------------------ C22
\* The typed-API fragment treats the forwarded call as the category of the
\* return type T asks: an owned object is built anew around it, the list is
\* mapped element by element, a pass-through object goes through the wrapper
\* cache, anything else is returned as it comes.
MirrorsReturnCategory(ts, T) ==
  LET fwd == Positions(ts, "this.native.")
      f == fwd[1]
      maps == Positions(ts, "        return methodResult.map((item: any) => ")
  IN /\ Len(fwd) = 1
     /\ CASE T = "void" -> ts[f - 1] = " {\n"
          [] T \in OwnedReturnTypes ->
               /\ ts[f - 4] = "        return "
               /\ ts[f - 3] = "new "
               /\ ts[f - 2] = T
               /\ ts[f - 1] = "("
          [] T = "QModelIndexList" ->
               /\ ts[f - 1] = "        const methodResult = "
               /\ Len(maps) = 1
               /\ ts[maps[1] + 1] = "new "
               /\ ts[maps[1] + 2] = "QModelIndex"
          [] T \in PassThroughReturnTypes ->
               /\ ts[f - 2] = "        return "
               /\ ts[f - 1] = "wrapperCache.getWrapper("
          [] OTHER ->
               /\ ts[f - 2] = " {\n"
               /\ ts[f - 1] = "        return "

\* C22: the typed-API fragment generated for a signature mirrors the native
\* return category of its return type: primitives are passed through, each of
\* QModelIndex, QRect, QSize, QSizeF and QIcon is returned as a new typed
\* object around the native result, the list is mapped element-wise, and
\* QWidget, QAction and QMenu go through the typed wrapper cache.
Cex_C22 ==
  (OperationMode /\ pc # "AwaitHeader") =>
    LET ok == OkLines
    IN \A i \in Reached :
         (CatalogueReturn(lines[i]) /\ ValidLine(i)) =>
           MirrorsReturnCategory(tsBlock[IndexIn(ok, i)], lines[i].ret)

\* ------------------------------------------------------------------ C23
\* The native body unwraps a companion wrapper object to get at the instance
\* it holds.
UnwrapsWrapper(body) ==
  \E p \in 1..Len(body) :
    body[p] \in {"Wrap>::Unwrap(",
                 "WidgetWrap =\n        Napi::ObjectWrap<NodeWidgetWrap>::Unwrap("}

\* The j-th entry of the argument list of the forwarded call in a typed-API
\* fragment.
ForwardedEntry(ts, j) == ts[Positions(ts, "this.native.")[1] + 1 + 2 * j]

\* C23: for a generated signature with one argument a, the typed-API
\* fragment forwards `a.native` exactly when the native body unwraps a
\* companion wrapper object for a, and `a` otherwise.
Cex_C23 ==
  (OperationMode /\ pc # "AwaitHeader") =>
    LET ok == OkLines
    IN \A i \in Reached :
         (OneCatalogueArgument(lines[i]) /\ ValidLine(i)) =>
           ForwardedEntry(tsBlock[IndexIn(ok, i)], 1) =
             (IF UnwrapsWrapper(bodyBlock[IndexIn(ok, i)]) THEN "a.native" ELSE "a")

\* ------------------------------------------------------------------ C24
\* The category of a catalogue argument type.
ArgumentCategory(t) ==
  CASE t \in {"GLboolean", "bool"} -> "boolean"
    [] t \in {"GLenum", "GLint", "GLsizei", "int"} -> "signed"
    [] t \in {"GLuint", "uint"} -> "unsigned"
    [] t \in {"GLclampf", "GLfloat", "qreal"} -> "floating"
    [] t = "const QString" -> "string"
    [] t \in {"QItemSelectionModel::SelectionFlags", "QAbstractItemView::CursorAction",
              "QAbstractItemView::ScrollHint", "QHeaderView::ResizeMode", "Qt::SortOrder",
              "Qt::Alignment", "Qt::Orientation", "Qt::TextElideMode", "QSizePolicy::Policy",
              "QComboBox::InsertPolicy", "QComboBox::SizeAdjustPolicy", "QIcon::Mode",
              "QIcon::State", "Qt::AspectRatioMode", "Qt::Corner"} -> "enum"
    [] OTHER -> "object"

\* The one extraction statement of the body reads argument `name` of type t
\* as its category asks and declares a local of that name.
ExtractionFollowsCategory(body, t, name) ==
  LET reads == Positions(body, "info[")
      r == reads[1]
      category == ArgumentCategory(t)
      scalar(conversion) ==
        /\ body[r - 4] = t
        /\ body[r - 2] = name
        /\ body[r - 1] = " = "
        /\ body[r + 3] = conversion
  IN /\ Len(reads) = 1
     /\ CASE category = "boolean" -> scalar(".As<Napi::Boolean>().Value();")
          [] category = "signed" -> scalar(".As<Napi::Number>().Int32Value();")
          [] category = "unsigned" -> scalar(".As<Napi::Number>().Uint32Value();")
          [] category = "floating" -> scalar(".As<Napi::Number>().FloatValue();")
          [] category = "string" ->
               /\ body[r + 3] = ".As<Napi::String>().Utf8Value();\n  QString "
               /\ body[r + 4] = name
               /\ body[r + 5] = " = QString::fromUtf8("
          [] category = "enum" ->
               /\ body[r - 6] = t
               /\ body[r - 4] = name
               /\ body[r - 3] = " = static_cast<"
               /\ body[r - 2] = t
               /\ body[r + 3] = ".As<Napi::Number>().Int32Value());"
          [] OTHER ->
               /\ UnwrapsWrapper(body)
               /\ \E p \in 2..(Len(body) - 1) :
                    /\ body[p - 1] \in {"* ", "WidgetObject);\n    QWidget *"}
                    /\ body[p] = name
                    /\ body[p + 1] = " = "

\* C24: for every catalogue argument type the native body generated for a
\* signature with one argument of that type extracts it as the category of
\* the type asks (boolean, signed or unsigned 32-bit, floating, UTF-8 text
\* converted to QString, 32-bit value cast to the enumeration, unwrapped
\* companion wrapper) into a local named as the argument.
Cex_C24 ==
  (OperationMode /\ pc # "AwaitHeader") =>
    LET ok == OkLines
    IN \A i \in Reached :
         OneCatalogueArgument(lines[i]) =>
           /\ ValidLine(i)
           /\ ExtractionFollowsCategory(bodyBlock[IndexIn(ok, i)],
                                        CatalogueArgument(lines[i]), "a")

\* ------------------------------------------------------------------ C25
\* The typed-API names of the method names of the inputs, written out.
KnownTsName(m) ==
  CASE m = NameGlGetError -> "getError"
    [] m = NameAdd -> "add"
    [] m = NameSetEnabled -> "setEnabled"
    [] m = NameSetX -> "setX"
    [] OTHER -> NameWithoutGl(m)

\* C25: in both modes the typed-API fragment of a generated signature is
\* named by the parsed method name, without its first two characters and
\* with the next one lower-cased when it starts with `gl`, verbatim
\* otherwise; in operation mode the forwarded native call and the native
\* fragments use the parsed name as it is.
Thm_C25 ==
  (HasHeader /\ pc # "AwaitHeader") =>
    LET ok == OkLines
    IN \A k \in 1..Len(ok) :
         k <= Len(tsBlock) =>
           LET m == lines[ok[k]].method
               ts == tsBlock[k]
           IN /\ ts[2] = NameWithoutGl(m)
              /\ ts[2] = KnownTsName(m)
              /\ (m[1] # "g" \/ m[2] # "l") => ts[2] = Str(m)
              /\ OperationMode =>
                   /\ ts[Positions(ts, "this.native.")[1] + 1] = Str(m)
                   /\ bodyBlock[k][Positions(bodyBlock[k], "this->instance->")[1] + 1] = Str(m)

\* A property-mode accessor generated for `int glGetError()`, named getError.
Wit_C25 ==
  /\ PropertyMode
  /\ pc = "Emitted"
  /\ Len(tsBlock) = 1
  /\ Len(OkLines) = 1
  /\ lines[OkLines[1]].method = NameGlGetError
  /\ lines[OkLines[1]].ret = "int"
  /\ tsBlock[1][2] = "getError"

\* ------------------------------------------------------------------ C26
\* C26: a line of signature shape with a catalogue return type and the
\* argument text `` or `void` parses to zero arguments; the arguments of any
\* successful parse are the entries that carry a name, in their order.
Cex_C26 ==
  pc # "AwaitHeader" =>
    \A i \in Reached :
      (sigRegex(lines[i]) /\ lines[i].ret \in SUPPORTED_RETURN_TYPES) =>
        /\ lines[i].args \in {NoArgs, <<UnnamedVoid>>} =>
             /\ ~Parsed(i).thrown
             /\ Parsed(i).args = <<>>
        /\ ~Parsed(i).thrown =>
             LET named == NamedEntries(lines[i])
             IN /\ Len(Parsed(i).args) = Len(named)
                /\ \A k \in 1..Len(named) :
                     Parsed(i).args[k].name = WrittenName(lines[i].args[named[k]])

\* ------------------------------------------------------------------ C27
\* The words of an entry before its last word, which the parser takes for
\* the type of the argument.
LeadingWords(entry) == JoinStr([w \in 1..(Len(entry) - 1) |-> entry[w][1]], " ")

\* The line has the shape of a signature: the TODO marker, a return-type
\* word, a method name and a parenthesised argument text.
SignatureShaped(l) == l.marker = "TODO" /\ l.ret # "" /\ l.method # <<>>

Squeezed ==
  LET kept == Ascending(NonBlank)
  IN [k \in 1..Len(kept) |-> trim(lines[kept[k]])]

\* The texts of one kind of fragment of the results, those that are there.
RECURSIVE Collected(_, _)
Collected(results, fragment) ==
  IF results = <<>> THEN <<>>
  ELSE (IF Head(results).type = "ok" /\ ~Head(results)[fragment].null
        THEN <<Head(results)[fragment].text>> ELSE <<>>)
         \o Collected(Tail(results), fragment)

\* What a run writes for an input sq that has no blank line and no padding:
\* the header diagnostic, or the diagnostic of the first failed line, or the
\* class line and the sections.
OutputOf(sq) ==
  LET header == sq[1]
      property == header.marker = "PROP"
      results == [k \in 1..(Len(sq) - 1) |->
                    IF property THEN expandProperty(sq[k + 1])
                    ELSE expandMethod(header.cls, sq[k + 1])]
      failed == {k \in 1..Len(results) : results[k].type = "failed"}
      first == CHOOSE k \in failed : \A j \in failed : k <= j
  IN IF header.marker \notin {"CLASS", "PROP"}
     THEN <<<<"ERROR: Unable to find CLASS or PROP comment. i.e. // CLASS: FooBarWidget">>>>
     ELSE IF failed # {}
     THEN <<<<">>> ERROR: ">> \o MessageText(results[first].message)>>
     ELSE << <<"// CLASS: ", header.cls>> >>
            \o Section("// C++ declaration", Collected(results, "methodDeclaration"))
            \o Section("// Napi declaration", Collected(results, "napiInit"))
            \o Section("// C++ body", Collected(results, "methodBody"))
            \o <<Rule, <<"// TS body">>, Flatten(Collected(results, "tsBody"))>>

\* C28: blank lines and surrounding whitespace are transparent.  A run over
\* an input with at least one non-blank line ends, and what it has written
\* is what the input without its blank lines and without the whitespace
\* around its lines gives: blank lines before the header, between the
\* signature lines and after the last one, and padding of a line, change
\* nothing.
Thm_C28 ==
  (Ended /\ NonBlank # {}) =>
    /\ pc # "Crashed"
    /\ out = OutputOf(Squeezed)

\* A finished run over an input with a blank line before the header and a
\* padded signature line that generated fragments.
Wit_C28 ==
  /\ pc = "Emitted"
  /\ Len(lines) = 3
  /\ IsBlank(lines[1])
  /\ lines[3].marker = "TODO"
  /\ lines[3].pad
  /\ Len(tsBlock) = 1

\* ------------------------------------------------------------------ C29
\* The registration line of method `name` under the wrapper of class cls.
RegistersUnder(line, name, cls) ==
  /\ line[1] = "       InstanceMethod(\""
  /\ line[2] = name
  /\ line[4] = cls
  /\ line[5] = "Wrap::"
  /\ line[6] = name

\* C29: in operation mode, wherever the body loop stands, the declaration,
\* registration, native-body and typed-API collections have one length, the
\* number of non-blank body lines dealt with so far, and their i-th elements
\* are the fragments of the i-th such line; a run that ends without failure
\* has written one registration line per signature line of the input, each
\* under `<ClassName>Wrap` for the class name of the header.
Thm_C29 ==
  (OperationMode /\ pc \in {"ParsingBody", "Emitted", "Aborted"}) =>
    LET done == Ascending(Processed)
        n == Len(done)
    IN /\ Len(cppDeclaration) = n
       /\ Len(napiInitBlock) = n
       /\ Len(bodyBlock) = n
       /\ Len(tsBlock) = n
       /\ \A k \in 1..n :
            LET fragments == Generated(done[k])
            IN /\ fragments.type = "ok"
               /\ cppDeclaration[k] = fragments.methodDeclaration.text
               /\ napiInitBlock[k] = fragments.napiInit.text
               /\ bodyBlock[k] = fragments.methodBody.text
               /\ tsBlock[k] = fragments.tsBody.text
               /\ RegistersUnder(napiInitBlock[k], Str(lines[done[k]].method), HeaderLine.cls)
       /\ pc = "Emitted" =>
            /\ n = Cardinality(BodyLines)
            /\ n > 0 =>
                 \E p \in 1..(Len(out) - 1) :
                   /\ out[p] = <<"// Napi declaration">>
                   /\ out[p + 1] = Flatten(napiInitBlock)

\* A finished operation-mode run over two signature lines, with two
\* registration lines.
Wit_C29 ==
  /\ OperationMode
  /\ pc = "Emitted"
  /\ Cardinality(BodyLines) = 2
  /\ Len(napiInitBlock) = 2
  /\ napiInitBlock[1] # napiInitBlock[2]
  /\ Written("// Napi declaration")

\* ------------------------------------------- earliest copy (src/main.ts)
\* The first copy of the generator in src/main.ts reads lines of the form
\* `//<returnType> <methodName>(<args>)` and has GL types only.
EARLIEST_SUPPORTED_ARG_TYPES ==
  { "GLenum", "GLfloat", "GLint", "GLuint", "GLsizei", "GLclampf", "GLboolean" }

earliestIsSupportedArgType(argName) == argName \in EARLIEST_SUPPORTED_ARG_TYPES

EARLIEST_SUPPORTED_RETURN_TYPES ==
  { "void", "GLfloat", "GLenum", "GLboolean", "GLint", "GLuint", "GLclampf", "GLsizei" }

\* `SUPPORTED_ARG_TYPES.includes(returnName)`: the function looks the token up
\* in the argument catalogue.
earliestIsSupportedReturnType(returnName) == returnName \in EARLIEST_SUPPORTED_ARG_TYPES

\* A line `//<ret> <method>(<args>)`.
GlSignature(ret, method, args) == Line("GL", FALSE, "", ret, method, args)

\* The text of a line given to the earliest copy.
earliestRawLine(l) ==
  IF l.marker = "GL"
  THEN "//" \o l.ret \o " " \o Str(l.method) \o "(" \o ArgsText(l.args) \o ")"
  ELSE RawLine(l)

\* signature.match(sigRegex) of the earliest copy.
earliestSigRegex(l) == l.marker = "GL" /\ l.ret # "" /\ Len(l.method) > 0

\* One iteration of the loop of the earliest parseArgs: no sigil is stripped.
earliestParseArg(argParts) ==
  LET n == Len(argParts)
  IN [type |-> JoinStr([w \in 1..(n - 1) |-> Str(argParts[w])], " "),
      name |-> Str(argParts[n])]

RECURSIVE earliestParseArgs(_)
earliestParseArgs(args) ==
  IF args = <<>> THEN <<>>
  ELSE LET a == earliestParseArg(Head(args))
       IN (IF a.name # "" THEN <<a>> ELSE <<>>) \o earliestParseArgs(Tail(args))

\* The switch over arg.type in the native body: the conversion of info[i].
earliestArgConversion(type) ==
  CASE type = "GLboolean" -> "].As<Napi::Boolean>().Value();"
    [] type \in {"GLclampf", "GLfloat"} -> "].As<Napi::Number>().FloatValue();"
    [] type \in {"GLenum", "GLint", "GLsizei"} -> "].As<Napi::Number>().Int32Value();"
    [] OTHER -> "].As<Napi::Number>().Uint32Value();"

\* The switch over returnType that ends the native body.
earliestReturnStatement(returnType) ==
  CASE returnType = "void" -> "  return env.Null();"
    [] returnType = "GLboolean" -> "  return Napi::Boolean::New(env, result);"
    [] OTHER -> "  return Napi::Number::New(env, result);"

\* The switch over arg.type in the typed method.
earliestTsArgType(type) == IF type = "GLboolean" THEN "boolean" ELSE "number"

\* The switch over returnType in the typed method; the default case (taken
\* for GLclampf) adds nothing.
earliestTsReturnType(returnType) ==
  CASE returnType = "void" -> <<"void">>
    [] returnType = "GLboolean" -> <<"boolean">>
    [] returnType \in {"GLenum", "GLfloat", "GLint", "GLuint", "GLsizei"} -> <<"number">>
    [] OTHER -> <<>>

\* expandMethod of the earliest copy: null, or the four fragments.
earliestExpandMethod(cls, signature) ==
  LET returnType == signature.ret
      args == earliestParseArgs(signature.args)
      methodName == Str(signature.method)
      names == JoinPieces([i \in 1..Len(args) |-> args[i].name], ", ")
  IN IF ~earliestSigRegex(signature) THEN [null |-> TRUE]
     ELSE IF ~earliestIsSupportedReturnType(returnType) THEN [null |-> TRUE]
     ELSE IF \E i \in 1..Len(args) : ~earliestIsSupportedArgType(args[i].type)
     THEN [null |-> TRUE]
     ELSE [null |-> FALSE,
           methodDeclaration |->
             <<"  Napi::Value ", methodName, "(const Napi::CallbackInfo& info);">>,
           napiInit |->
             <<"       InstanceMethod(\"", methodName, "\", &", cls, "Wrap::",
               methodName, "),\n">>,
           methodBody |->
             <<"\nNapi::Value ", cls, "Wrap::", methodName,
               "(const Napi::CallbackInfo& info) {\n  Napi::Env env = info.Env();\n  Napi::HandleScope scope(env);\n\n  if (info.Length() != ",
               NumStr(Len(args)),
               ") {\n    Napi::TypeError::New(env, \"Wrong number of arguments\")\n        .ThrowAsJavaScriptException();\n  }\n">>
             \o Flatten([i \in 1..Len(args) |->
                  <<"  ", args[i].type, " ", args[i].name, " = info[", NumStr(i - 1),
                    earliestArgConversion(args[i].type), "\n">>])
             \o (IF returnType = "void" THEN <<"  ">>
                 ELSE <<"  ", returnType, " result = ">>)
             \o <<"this->instance->", methodName, "(">> \o names \o <<");\n">>
             \o <<earliestReturnStatement(returnType), "\n}\n">>,
           tsBody |->
             <<"    ", Str(formatTSMethodName(signature.method)), "(">>
             \o Flatten([i \in 1..Len(args) |->
                  (IF i = 1 THEN <<>> ELSE <<", ">>)
                  \o <<args[i].name, ": ", earliestTsArgType(args[i].type)>>])
             \o <<"): ">> \o earliestTsReturnType(returnType) \o <<" {\n">>
             \o (IF returnType # "void" THEN <<"        return ">> ELSE <<"        ">>)
             \o <<"this.native.", methodName, "(">> \o names \o <<");\n    }\n\n">>]

\* //void glFlush()
GlFlush == GlSignature("void", <<"g","l","F","l","u","s","h">>, NoArgs)
\* //GLenum glGetError()
GlGetError == GlSignature("GLenum", <<"g","l","G","e","t","E","r","r","o","r">>, NoArgs)
\* //GLboolean glIsEnabled(GLenum cap)
GlIsEnabled ==
  GlSignature("GLboolean", <<"g","l","I","s","E","n","a","b","l","e","d">>,
              << <<W("GLenum"), W("cap")>> >>)
\* //GLclampf range(GLint a, GLfloat b)
GlRange ==
  GlSignature("GLclampf", <<"r","a","n","g","e">>,
              << <<W("GLint"), W("a")>>, <<W("GLfloat"), W("b")>> >>)
\* //GLint glFind(GLuint program, QString name)
GlFind ==
  GlSignature("GLint", <<"g","l","F","i","n","d">>,
              << <<W("GLuint"), W("program")>>, <<W("QString"), W("name")>> >>)
\* //QString glName()
GlName == GlSignature("QString", <<"g","l","N","a","m","e">>, NoArgs)

EarliestLines ==
  { BlankLine, SpaceLine, TextLine, GlFlush, GlGetError, GlIsEnabled, GlRange, GlFind, GlName }

\* methodStrList.split('\n') always has at least one element.
EarliestInputs == UNION { [1..n -> EarliestLines] : n \in 1..MaxLines }

\* `filter(line => line.trim() !== '')`
RECURSIVE NonBlankLines(_)
NonBlankLines(ls) ==
  IF ls = <<>> THEN <<>>
  ELSE (IF IsBlank(Head(ls)) THEN <<>> ELSE <<Head(ls)>>) \o NonBlankLines(Tail(ls))

\* processMethods(className, methodStrList) has been called; className is
\* the class name of the commented-out call of the source.
InitEarliest ==
  /\ lines \in EarliestInputs
  /\ pc = "Called"
  /\ lineNumber = 0
  /\ isProp = FALSE
  /\ className = "QOpenGLExtraFunctions"
  /\ cppDeclaration = <<>>
  /\ napiInitBlock = <<>>
  /\ bodyBlock = <<>>
  /\ tsBlock = <<>>
  /\ out = <<>>

\* The start of processMethods: methodList (held in cppDeclaration, which it
\* becomes) is the non-blank lines, the three blocks are empty strings, i = 0
\* (held in lineNumber).
SplitMethodList ==
  /\ pc = "Called"
  /\ cppDeclaration' = [i \in 1..Len(NonBlankLines(lines)) |->
                          <<earliestRawLine(NonBlankLines(lines)[i])>>]
  /\ pc' = "Expanding"
  /\ UNCHANGED <<lines, lineNumber, isProp, className, napiInitBlock, bodyBlock, tsBlock, out>>

\* methodList[i] as it was when the loop reached it.
EarliestCurrentLine == NonBlankLines(lines)[lineNumber + 1]

\* One iteration of the loop with `result != null`.
MethodExpanded ==
  /\ pc = "Expanding"
  /\ lineNumber < Len(cppDeclaration)
  /\ LET result == earliestExpandMethod(className, EarliestCurrentLine)
     IN /\ ~result.null
        /\ cppDeclaration' = [cppDeclaration EXCEPT ![lineNumber + 1] = result.methodDeclaration]
        /\ napiInitBlock' = napiInitBlock \o result.napiInit
        /\ bodyBlock' = bodyBlock \o result.methodBody
        /\ tsBlock' = tsBlock \o result.tsBody
  /\ lineNumber' = lineNumber + 1
  /\ UNCHANGED <<lines, pc, isProp, className, out>>

\* One iteration of the loop with `result == null`: the line stays in
\* methodList as it is.
MethodNotExpanded ==
  /\ pc = "Expanding"
  /\ lineNumber < Len(cppDeclaration)
  /\ earliestExpandMethod(className, EarliestCurrentLine).null
  /\ lineNumber' = lineNumber + 1
  /\ UNCHANGED <<lines, pc, isProp, className, cppDeclaration, napiInitBlock, bodyBlock,
                 tsBlock, out>>

\* The log calls that end processMethods.
LogBlocks ==
  /\ pc = "Expanding"
  /\ lineNumber >= Len(cppDeclaration)
  /\ out' = out \o <<Rule, <<"// C++ declaration">>,
                     Flatten([i \in 1..Len(cppDeclaration) |->
                                (IF i = 1 THEN <<>> ELSE <<"\n">>) \o cppDeclaration[i]]),
                     <<"">>,
                     Rule, <<"// Napi declaration">>, napiInitBlock, <<"">>,
                     Rule, <<"// C++ body">>, bodyBlock, <<"">>,
                     Rule, <<"// TS body">>, tsBlock>>
  /\ pc' = "Logged"
  /\ UNCHANGED <<lines, lineNumber, isProp, className, cppDeclaration, napiInitBlock,
                 bodyBlock, tsBlock>>

NextEarliest ==
  \/ SplitMethodList
  \/ MethodExpanded
  \/ MethodNotExpanded
  \/ LogBlocks

SpecEarliest == InitEarliest /\ [][NextEarliest]_vars

\* ------------------------------------------------------------------ C30
\* The non-blank lines the loop of the earliest copy has dealt with.
EarliestDone == 1..lineNumber

\* The signature line has only arguments of the earliest argument catalogue.
EarliestArgumentsKnown(l) ==
  \A a \in Range(earliestParseArgs(l.args)) : a.type \in EARLIEST_SUPPORTED_ARG_TYPES

\* The i-th non-blank line was replaced by a method declaration.
EarliestAccepted(i) ==
  cppDeclaration[i] # <<earliestRawLine(NonBlankLines(lines)[i])>>

\* C30: the earliest copy accepts the return-type token of a signature line
\* (whose arguments are all known) exactly when the token is in that copy's
\* return-type catalogue; in particular it accepts void.
Cex_C30 ==
  pc \in {"Expanding", "Logged"} =>
    \A i \in EarliestDone :
      LET l == NonBlankLines(lines)[i]
      IN (earliestSigRegex(l) /\ EarliestArgumentsKnown(l)) =>
           (EarliestAccepted(i) <=> l.ret \in EARLIEST_SUPPORTED_RETURN_TYPES)

====
